---- MODULE Spec2Model ----
(***************************************************************************)
(* Model of the conversation discovery engine of HammingAITakeHome.        *)
(*                                                                         *)
(* This part models src/src/discovery/conversationTree.ts: the             *)
(* ConversationTree class (node map, root, explored path signatures), its  *)
(* text helpers generatePathSignature and extractThemes, the redundancy    *)
(* check isRedundantPath, and the operations initializeRoot, addNode,      *)
(* updateNodeWithResponse and getNodesWithUnexploredPaths.                 *)
(*                                                                         *)
(* A text (a JavaScript string) is a sequence of one-character strings.    *)
(* Node ids are "root" and "node_<k>" (fresh ids: the code draws them from *)
(* Date.now() and Math.random(), the model from a counter).                *)
(*                                                                         *)
(* The second part models src/src/orchestrator/discoveryOrchestrator.ts:   *)
(* the DiscoveryOrchestrator with its Discovery State, its callQueue, the  *)
(* drain loop processCallQueue and the handlers startDiscovery,            *)
(* stopDiscovery, handleCallCompleted and handleCallFailed.  The handlers   *)
(* are async functions: each await is a point where the handler is          *)
(* suspended and the other handlers run, so a handler is one action per     *)
(* stretch of code between two awaits.                                      *)
(*                                                                         *)
(* The third part models src/src/analyzer/responseAnalyzer.ts: the         *)
(* ResponseAnalyzer with its conversation context, the keyword and pattern *)
(* tests on a transcript, the prompts it builds and analyzeResponse.       *)
(***************************************************************************)
EXTENDS Integers, Sequences, FiniteSets, Bags, TLC

VARIABLES
    maxDepth,            \* ConversationTree.maxDepth (constructor argument)
    nodes,               \* ConversationTree.nodes: id -> CallNode, a function
    order,               \* insertion order of the keys of the nodes Map
    rootNode,            \* ConversationTree.rootNode: NULL or the id "root"
    exploredSignatures,  \* ConversationTree.exploredSignatures
    last,                \* the last call made on the tree and its outcome
    config,              \* DiscoveryOrchestrator.config (maxDepth is the tree's)
    state,               \* DiscoveryOrchestrator.state: the Discovery State
    callQueue,           \* DiscoveryOrchestrator.callQueue
    now,                 \* Date.now()
    calls,               \* the calls the external API has started, by number
    pending,             \* the suspended handler invocations, a bag
    drain,               \* the processCallQueue chain: where it is suspended
    strayEvents,         \* events delivered for a call id the API never issued
    event,               \* the last step of the orchestrator and its outcome
    cycle,               \* the drain cycle in progress: its start and its attempts
    analyzerContext,     \* ResponseAnalyzer.context
    analysisResult       \* the AnalysisResult of the last analyzeResponse

treeVars == <<maxDepth, nodes, order, rootNode, exploredSignatures>>
analyzerVars == <<analyzerContext, analysisResult>>
engineVars == <<config, state, callQueue, now, calls, pending, drain, strayEvents,
                event, cycle, analyzerVars>>
vars == <<maxDepth, nodes, order, rootNode, exploredSignatures, last,
          config, state, callQueue, now, calls, pending, drain, strayEvents,
          event, cycle, analyzerContext, analysisResult>>

NULL == "null"

(***************************************************************************)
(* Characters.                                                             *)
(***************************************************************************)
Digits == <<"0","1","2","3","4","5","6","7","8","9">>
LowerCase == <<"a","b","c","d","e","f","g","h","i","j","k","l","m",
               "n","o","p","q","r","s","t","u","v","w","x","y","z">>
UpperCase == <<"A","B","C","D","E","F","G","H","I","J","K","L","M",
               "N","O","P","Q","R","S","T","U","V","W","X","Y","Z">>
\* the characters a signature keeps, in UTF-16 code unit order
CodeUnitOrder == Digits \o LowerCase
Range(s) == {s[i] : i \in DOMAIN s}
\* the bag of the elements of a sequence
SeqToBag(s) == [x \in Range(s) |-> Cardinality({i \in DOMAIN s : s[i] = x})]
Whitespace == {" "}
Alphanumeric == Range(CodeUnitOrder)

IndexOf(c, s) == CHOOSE i \in DOMAIN s : s[i] = c

\* String.prototype.toLowerCase, one character
lowerChar(c) == IF c \in Range(UpperCase) THEN LowerCase[IndexOf(c, UpperCase)] ELSE c
toLowerCase(text) == [i \in DOMAIN text |-> lowerChar(text[i])]

\* String.prototype.includes
includes(text, word) ==
    \E i \in 0..(Len(text) - Len(word)) : SubSeq(text, i + 1, i + Len(word)) = word

(***************************************************************************)
(* generatePathSignature, step by step.                                    *)
(***************************************************************************)
\* .replace(/[^a-z0-9\s]/g, "")
stripNonAlphanumeric(text) ==
    SelectSeq(text, LAMBDA c : c \in Alphanumeric \cup Whitespace)

\* .split(/\s+/): every maximal run of whitespace separates two tokens, so a
\* text that starts or ends with whitespace yields an empty first or last token
RECURSIVE splitFrom(_, _, _)
splitFrom(text, i, token) ==
    IF i > Len(text) THEN <<token>>
    ELSE IF text[i] \in Whitespace
         THEN IF i > 1 /\ text[i - 1] \in Whitespace
              THEN splitFrom(text, i + 1, token)
              ELSE <<token>> \o splitFrom(text, i + 1, <<>>)
         ELSE splitFrom(text, i + 1, Append(token, text[i]))
splitWhitespace(text) == splitFrom(text, 1, <<>>)

\* the default comparison of Array.prototype.sort: by UTF-16 code units
RECURSIVE tokenLess(_, _)
tokenLess(a, b) ==
    IF b = <<>> THEN FALSE
    ELSE IF a = <<>> THEN TRUE
    ELSE IF Head(a) = Head(b) THEN tokenLess(Tail(a), Tail(b))
    ELSE IndexOf(Head(a), CodeUnitOrder) < IndexOf(Head(b), CodeUnitOrder)

RECURSIVE insertToken(_, _)
insertToken(t, sorted) ==
    IF sorted = <<>> THEN <<t>>
    ELSE IF tokenLess(t, Head(sorted)) THEN <<t>> \o sorted
    ELSE <<Head(sorted)>> \o insertToken(t, Tail(sorted))

RECURSIVE sortTokens(_)
sortTokens(tokens) ==
    IF tokens = <<>> THEN <<>>
    ELSE insertToken(tokens[Len(tokens)], sortTokens(SubSeq(tokens, 1, Len(tokens) - 1)))

\* .join("_")
RECURSIVE joinTokens(_)
joinTokens(tokens) ==
    IF tokens = <<>> THEN <<>>
    ELSE IF Len(tokens) = 1 THEN tokens[1]
    ELSE tokens[1] \o <<"_">> \o joinTokens(Tail(tokens))

generatePathSignature(prompt) ==
    joinTokens(sortTokens(splitWhitespace(stripNonAlphanumeric(toLowerCase(prompt)))))

(***************************************************************************)
(* extractThemes: the keyword table of the tree.                           *)
(***************************************************************************)
ThemeKeywords == <<
    [word |-> <<"e","m","e","r","g","e","n","c","y">>,           theme |-> "emergency_service"],
    [word |-> <<"m","a","i","n","t","e","n","a","n","c","e">>,   theme |-> "maintenance"],
    [word |-> <<"r","e","p","a","i","r">>,                       theme |-> "repair"],
    [word |-> <<"i","n","s","t","a","l","l","a","t","i","o","n">>, theme |-> "installation"],
    [word |-> <<"q","u","o","t","e">>,                           theme |-> "quote"],
    [word |-> <<"p","r","i","c","i","n","g">>,                   theme |-> "pricing"],
    [word |-> <<"n","a","m","e">>,                               theme |-> "personal_info"],
    [word |-> <<"a","d","d","r","e","s","s">>,                   theme |-> "location_info"],
    [word |-> <<"c","o","n","t","a","c","t">>,                   theme |-> "contact_info"],
    [word |-> <<"s","c","h","e","d","u","l","e">>,               theme |-> "scheduling"] >>

extractThemes(text) ==
    {ThemeKeywords[k].theme : k \in {j \in DOMAIN ThemeKeywords :
                                        includes(toLowerCase(text), ThemeKeywords[j].word)}}

(***************************************************************************)
(* The texts the operations are called with.                               *)
(***************************************************************************)
InitialPrompt == <<"i","n","t","r","o">>                                      \* "intro"
IntroVariant == <<"I","n","t","r","o","!">>                                   \* "Intro!"
ScheduleVisit == <<"s","c","h","e","d","u","l","e"," ","v","i","s","i","t">>  \* "schedule visit"
VisitSchedule == <<"V","i","s","i","t",","," ","s","c","h","e","d","u","l","e">> \* "Visit, schedule"
ScheduleNow == <<"s","c","h","e","d","u","l","e"," ","n","o","w">>            \* "schedule now"
RepairQuote == <<"r","e","p","a","i","r"," ","q","u","o","t","e">>            \* "repair quote"
Hello == <<"h","e","l","l","o">>                                              \* "hello"
ResponseOk == <<"o","k">>                                                     \* "ok"
ResponseSchedule == <<"w","e"," ","s","c","h","e","d","u","l","e">>           \* "we schedule"
FanPrompts == {<<"a">>, <<"b">>, <<"c">>, <<"d">>, <<"e">>, <<"f">>}
Emergency == <<"e","m","e","r","g","e","n","c","y">>                          \* "emergency"
EmergencyRepair == <<"e","m","e","r","g","e","n","c","y"," ","r","e","p","a","i","r">>
Repair == <<"r","e","p","a","i","r">>                                         \* "repair"
Bye == <<"b","y","e">>                                                        \* "bye"
\* transcripts for the analyzer
Goodbye == <<"G","o","o","d","b","y","e","!">>
ThankYouGoodbye ==                          \* "Thank you for calling. Goodbye!"
    <<"T","h","a","n","k"," ","y","o","u"," ","f","o","r"," ",
      "c","a","l","l","i","n","g","."," ","G","o","o","d","b","y","e","!">>
YourName == <<"Y","o","u","r"," ","n","a","m","e","?">>
Heating == <<"h","e","a","t","i","n","g">>
NameAndPhone ==                             \* "Your full name and phone number?"
    <<"Y","o","u","r"," ","f","u","l","l"," ","n","a","m","e"," ",
      "a","n","d"," ","p","h","o","n","e"," ","n","u","m","b","e","r","?">>
NewCar == <<"a"," ","n","e","w"," ","c","a","r">>
\* the candidates the analysis of a transcript identifies, and the transcripts
EnginePrompts == {Emergency, EmergencyRepair, RepairQuote, Repair, Hello}
EngineResponses == {Emergency, Bye}

RootPrompts == {InitialPrompt}
ChildPrompts == {IntroVariant, ScheduleVisit, VisitSchedule, ScheduleNow, RepairQuote, Hello}
Responses == {ResponseOk, ResponseSchedule}
\* potentialPrompts?: string[] -- absent (undefined) or a list
Undefined == [defined |-> FALSE, items |-> <<>>]
Defined(list) == [defined |-> TRUE, items |-> list]
CandidateLists == {Undefined, Defined(<<ScheduleNow, IntroVariant>>), Defined(<<Hello>>)}
\* an id no node has
MissingId == "node_404"

\* the two text helpers, tabulated over the texts above
Prompts == RootPrompts \cup ChildPrompts \cup FanPrompts \cup {ScheduleNow, IntroVariant, Hello}
              \cup EnginePrompts
SignatureOf == [prompt \in Prompts |-> generatePathSignature(prompt)]
ThemesOf == [text \in Prompts \cup Responses \cup EngineResponses
                       \cup {SignatureOf[prompt] : prompt \in Prompts}
                |-> extractThemes(text)]

(***************************************************************************)
(* Bounds of the model.                                                    *)
(***************************************************************************)
MaxDepthBound == 3      \* maxDepth ranges over 1..MaxDepthBound
MaxNodes == 4           \* addNode stops adding at MaxNodes nodes
MaxCalls == 4           \* startCall returns at most MaxCalls times
MaxStarts == 1          \* suspended invocations of startDiscovery at a time
MaxStrayEvents == 1     \* events for a call id the API never issued
MaxTime == 6            \* the clock stops at MaxTime
MaxLen == 5             \* an utterance has at most MaxLen characters
MaxAttempts == 7        \* startCall returns at most MaxAttempts times (SpecDispatch)
MaxRepeatCalls == 5     \* startCall returns at most MaxRepeatCalls times (SpecRepeat)
MaxContext == 3         \* the analyzer is called while its context holds fewer entries

(***************************************************************************)
(* ConversationTree.                                                       *)
(***************************************************************************)
MAX_CHILDREN_PER_NODE == 5

IN_PROGRESS == "in-progress"
COMPLETED == "completed"
FAILED == "failed"
UNEXPLORED == "unexplored"
NodeStatus == {UNEXPLORED, IN_PROGRESS, COMPLETED, FAILED}

NoCall == [op |-> "none", nodeId |-> NULL, text |-> <<>>, candidates |-> Undefined,
           error |-> "", retNode |-> NULL, retThemes |-> {}, retList |-> <<>>,
           retText |-> <<>>]

nodeIds == DOMAIN nodes

\* the id of a new node: node_${Date.now()}_${Math.random()...}, fresh
freshNodeId == "node_" \o ToString(Cardinality(nodeIds))
\* the call id the caller passes: the external API's id of the new call, fresh
freshCallId == "call_" \o ToString(Cardinality(nodeIds) + 1)

\* faulty variant: the explored signatures are not consulted
isRedundantPathThemesOnly(pathSignature, context) ==
    LET themes == ThemesOf[pathSignature] IN
    IF themes = {} THEN FALSE
    ELSE IF nodes[context].parentId # NULL /\ nodes[context].parentId \in nodeIds
         THEN LET parent == nodes[nodes[context].parentId]
                  siblingThemes == UNION {nodes[parent.children[i]].exploredThemes :
                                             i \in DOMAIN parent.children}
              IN  themes \subseteq siblingThemes
         ELSE FALSE

isRedundantPath(pathSignature, context) ==
    IF pathSignature \in exploredSignatures THEN TRUE
    ELSE LET themes == ThemesOf[pathSignature] IN
         IF themes = {} THEN FALSE
         ELSE IF nodes[context].parentId # NULL /\ nodes[context].parentId \in nodeIds
              THEN LET parent == nodes[nodes[context].parentId]
                       siblingThemes == UNION {nodes[parent.children[i]].exploredThemes :
                                                  i \in DOMAIN parent.children}
                   IN  themes \subseteq siblingThemes
              ELSE FALSE

TreeAlreadyInitialized == "Tree already initialized"

newRootNode(systemPrompt, callId) ==
    [id |-> "root", systemPrompt |-> systemPrompt, responseReceived |-> <<>>,
     callId |-> callId, status |-> IN_PROGRESS, children |-> <<>>, parentId |-> NULL,
     depth |-> 0, potentialPrompts |-> Undefined, retryCount |-> 0,
     pathSignature |-> SignatureOf[systemPrompt], exploredThemes |-> {}]

\* faulty variant: no check for an existing root
InitializeRootAgain(systemPrompt, callId) ==
    LET node == newRootNode(systemPrompt, callId) IN
    /\ rootNode' = node.id
    /\ nodes' = (node.id :> node) @@ nodes
    /\ order' = IF node.id \in nodeIds THEN order ELSE Append(order, node.id)
    /\ exploredSignatures' = exploredSignatures \cup {node.pathSignature}
    /\ last' = [NoCall EXCEPT !.op = "initializeRoot", !.text = systemPrompt,
                              !.retNode = node.id]
    /\ UNCHANGED maxDepth

InitializeRoot(systemPrompt, callId) ==
    IF rootNode # NULL
    THEN /\ last' = [NoCall EXCEPT !.op = "initializeRoot",
                                   !.error = TreeAlreadyInitialized]
         /\ UNCHANGED treeVars
    ELSE LET node == newRootNode(systemPrompt, callId) IN
         /\ rootNode' = node.id
         /\ nodes' = (node.id :> node) @@ nodes
         /\ order' = Append(order, node.id)
         /\ exploredSignatures' = exploredSignatures \cup {node.pathSignature}
         /\ last' = [NoCall EXCEPT !.op = "initializeRoot", !.text = systemPrompt,
                                   !.retNode = node.id]
         /\ UNCHANGED maxDepth

ParentNotFound(parentId) == "Parent node " \o parentId \o " not found"
MaximumDepthReached == "Maximum depth " \o ToString(maxDepth) \o " reached"
MaximumChildrenReached(parentId) == "Maximum children limit reached for node " \o parentId
SimilarPathExplored == "Similar conversation path already explored"

\* faulty variant: the depth check compares with maxDepth, not maxDepth - 1
addNodeErrorDepthOffByOne(parentId, systemPrompt) ==
    IF parentId \notin nodeIds THEN ParentNotFound(parentId)
    ELSE IF nodes[parentId].depth >= maxDepth THEN MaximumDepthReached
    ELSE IF Len(nodes[parentId].children) >= MAX_CHILDREN_PER_NODE
    THEN MaximumChildrenReached(parentId)
    ELSE IF isRedundantPath(SignatureOf[systemPrompt], parentId) THEN SimilarPathExplored
    ELSE ""

\* faulty variant: the fan-out check lets a sixth child in
addNodeErrorFanOutOffByOne(parentId, systemPrompt) ==
    IF parentId \notin nodeIds THEN ParentNotFound(parentId)
    ELSE IF nodes[parentId].depth >= maxDepth - 1 THEN MaximumDepthReached
    ELSE IF Len(nodes[parentId].children) > MAX_CHILDREN_PER_NODE
    THEN MaximumChildrenReached(parentId)
    ELSE IF isRedundantPath(SignatureOf[systemPrompt], parentId) THEN SimilarPathExplored
    ELSE ""

\* the error addNode throws for these arguments, "" if it throws none
addNodeError(parentId, systemPrompt) ==
    IF parentId \notin nodeIds THEN ParentNotFound(parentId)
    ELSE IF nodes[parentId].depth >= maxDepth - 1 THEN MaximumDepthReached
    ELSE IF Len(nodes[parentId].children) >= MAX_CHILDREN_PER_NODE
    THEN MaximumChildrenReached(parentId)
    ELSE IF isRedundantPath(SignatureOf[systemPrompt], parentId) THEN SimilarPathExplored
    ELSE ""

newChildNode(parentId, systemPrompt, callId) ==
    [id |-> freshNodeId, systemPrompt |-> systemPrompt, responseReceived |-> <<>>,
     callId |-> callId, status |-> IN_PROGRESS, children |-> <<>>, parentId |-> parentId,
     depth |-> nodes[parentId].depth + 1, potentialPrompts |-> Undefined, retryCount |-> 0,
     pathSignature |-> SignatureOf[systemPrompt],
     exploredThemes |-> ThemesOf[systemPrompt]]

\* faulty variant: the new node is not pushed onto its parent's children
AddNodeUnlinked(parentId, systemPrompt, callId) ==
    LET error == addNodeError(parentId, systemPrompt) IN
    IF error # ""
    THEN /\ last' = [NoCall EXCEPT !.op = "addNode", !.nodeId = parentId,
                                   !.text = systemPrompt, !.error = error]
         /\ UNCHANGED treeVars
    ELSE LET newNode == newChildNode(parentId, systemPrompt, callId) IN
         /\ nodes' = (newNode.id :> newNode) @@ nodes
         /\ order' = Append(order, newNode.id)
         /\ exploredSignatures' = exploredSignatures \cup {newNode.pathSignature}
         /\ last' = [NoCall EXCEPT !.op = "addNode", !.nodeId = parentId,
                                   !.text = systemPrompt, !.retNode = newNode.id]
         /\ UNCHANGED <<maxDepth, rootNode>>

AddNode(parentId, systemPrompt, callId) ==
    LET error == addNodeError(parentId, systemPrompt) IN
    IF error # ""
    THEN /\ last' = [NoCall EXCEPT !.op = "addNode", !.nodeId = parentId,
                                   !.text = systemPrompt, !.error = error]
         /\ UNCHANGED treeVars
    ELSE LET newNode == newChildNode(parentId, systemPrompt, callId) IN
         /\ nodes' = (newNode.id :> newNode) @@
                     [nodes EXCEPT ![parentId].children = Append(@, newNode.id)]
         /\ order' = Append(order, newNode.id)
         /\ exploredSignatures' = exploredSignatures \cup {newNode.pathSignature}
         /\ last' = [NoCall EXCEPT !.op = "addNode", !.nodeId = parentId,
                                   !.text = systemPrompt, !.retNode = newNode.id]
         /\ UNCHANGED <<maxDepth, rootNode>>

\* potentialPrompts?.filter(prompt => !isRedundantPath(generatePathSignature(prompt), node))
uniquePrompts(potentialPrompts, nodeId) ==
    IF potentialPrompts.defined
    THEN Defined(SelectSeq(potentialPrompts.items,
                 LAMBDA prompt : ~isRedundantPath(SignatureOf[prompt], nodeId)))
    ELSE Undefined

NodeNotFound(nodeId) == "Node " \o nodeId \o " not found"

\* faulty variant: only the themes no node of the tree had before are returned
UpdateNodeWithResponseNewThemes(nodeId, response, potentialPrompts) ==
    IF nodeId \notin nodeIds
    THEN /\ last' = [NoCall EXCEPT !.op = "updateNodeWithResponse", !.nodeId = nodeId,
                                   !.error = NodeNotFound(nodeId)]
         /\ UNCHANGED treeVars
    ELSE LET responseThemes == ThemesOf[response]
             seenThemes == UNION {nodes[id].exploredThemes : id \in nodeIds} IN
         /\ nodes' = [nodes EXCEPT
                ![nodeId].responseReceived = response,
                ![nodeId].potentialPrompts = uniquePrompts(potentialPrompts, nodeId),
                ![nodeId].status = COMPLETED,
                ![nodeId].exploredThemes = @ \cup responseThemes]
         /\ last' = [NoCall EXCEPT !.op = "updateNodeWithResponse", !.nodeId = nodeId,
                                   !.text = response, !.candidates = potentialPrompts,
                                   !.retThemes = responseThemes \ seenThemes]
         /\ UNCHANGED <<maxDepth, order, rootNode, exploredSignatures>>

\* faulty variant: the response's themes replace the node's themes
UpdateNodeWithResponseOverwrite(nodeId, response, potentialPrompts) ==
    IF nodeId \notin nodeIds
    THEN /\ last' = [NoCall EXCEPT !.op = "updateNodeWithResponse", !.nodeId = nodeId,
                                   !.error = NodeNotFound(nodeId)]
         /\ UNCHANGED treeVars
    ELSE LET responseThemes == ThemesOf[response] IN
         /\ nodes' = [nodes EXCEPT
                ![nodeId].responseReceived = response,
                ![nodeId].potentialPrompts = uniquePrompts(potentialPrompts, nodeId),
                ![nodeId].status = COMPLETED,
                ![nodeId].exploredThemes = responseThemes]
         /\ last' = [NoCall EXCEPT !.op = "updateNodeWithResponse", !.nodeId = nodeId,
                                   !.text = response, !.candidates = potentialPrompts,
                                   !.retThemes = responseThemes]
         /\ UNCHANGED <<maxDepth, order, rootNode, exploredSignatures>>

UpdateNodeWithResponse(nodeId, response, potentialPrompts) ==
    IF nodeId \notin nodeIds
    THEN /\ last' = [NoCall EXCEPT !.op = "updateNodeWithResponse", !.nodeId = nodeId,
                                   !.error = NodeNotFound(nodeId)]
         /\ UNCHANGED treeVars
    ELSE LET responseThemes == ThemesOf[response] IN
         /\ nodes' = [nodes EXCEPT
                ![nodeId].responseReceived = response,
                ![nodeId].potentialPrompts = uniquePrompts(potentialPrompts, nodeId),
                ![nodeId].status = COMPLETED,
                ![nodeId].exploredThemes = @ \cup responseThemes]
         /\ last' = [NoCall EXCEPT !.op = "updateNodeWithResponse", !.nodeId = nodeId,
                                   !.text = response, !.candidates = potentialPrompts,
                                   !.retThemes = responseThemes]
         /\ UNCHANGED <<maxDepth, order, rootNode, exploredSignatures>>

\* faulty variant: among equal child counts, fewer themes first
compareNodesThemesAscending(a, b) ==
    IF Len(nodes[a].children) # Len(nodes[b].children)
    THEN Len(nodes[a].children) - Len(nodes[b].children)
    ELSE Cardinality(nodes[a].exploredThemes) - Cardinality(nodes[b].exploredThemes)

\* the comparator of getNodesWithUnexploredPaths: negative when a sorts before b
compareNodes(a, b) ==
    IF Len(nodes[a].children) # Len(nodes[b].children)
    THEN Len(nodes[a].children) - Len(nodes[b].children)
    ELSE Cardinality(nodes[b].exploredThemes) - Cardinality(nodes[a].exploredThemes)

\* Array.prototype.sort with a comparator is stable: an element goes after the
\* elements that do not sort after it
RECURSIVE insertNode(_, _)
insertNode(id, sorted) ==
    IF sorted = <<>> THEN <<id>>
    ELSE IF compareNodes(id, Head(sorted)) < 0 THEN <<id>> \o sorted
    ELSE <<Head(sorted)>> \o insertNode(id, Tail(sorted))

RECURSIVE sortNodes(_)
sortNodes(ids) ==
    IF ids = <<>> THEN <<>>
    ELSE insertNode(ids[Len(ids)], sortNodes(SubSeq(ids, 1, Len(ids) - 1)))

\* (node.potentialPrompts?.length ?? 0) > 0 and the other three conditions
hasUnexploredPaths(id) ==
    /\ nodes[id].status = COMPLETED
    /\ Len(nodes[id].potentialPrompts.items) > 0
    /\ nodes[id].depth < maxDepth
    /\ Len(nodes[id].children) < MAX_CHILDREN_PER_NODE

getNodesWithUnexploredPaths == sortNodes(SelectSeq(order, hasUnexploredPaths))

GetNodesWithUnexploredPaths ==
    /\ last' = [NoCall EXCEPT !.op = "getNodesWithUnexploredPaths",
                              !.retList = getNodesWithUnexploredPaths]
    /\ UNCHANGED treeVars

(***************************************************************************)
(* DiscoveryOrchestrator: configuration, Discovery State, helpers.         *)
(***************************************************************************)
MAX_RETRY_ATTEMPTS == 3

\* the configuration: config.maxDepth is the maxDepth the tree is built with
Config(maxConcurrentCalls, minTimeBetweenCalls, retryDelayMs) ==
    [maxConcurrentCalls |-> maxConcurrentCalls,
     minTimeBetweenCalls |-> minTimeBetweenCalls,
     retryDelayMs |-> retryDelayMs]

\* this.state after the constructor (lastUpdateTimestamp, which nothing reads,
\* is left out)
InitialState ==
    [isRunning |-> FALSE, activeCallCount |-> 0, completedCallCount |-> 0,
     failedCallCount |-> 0, exploredThemes |-> {}, activeThemes |-> {},
     lastCallTime |-> 0]

\* createInitialSystemPrompt: a fixed text without a theme keyword, abbreviated
createInitialSystemPrompt == InitialPrompt

\* the keyword table of the orchestrator's own extractThemes
OrchestratorThemeKeywords == <<
    [word |-> <<"e","m","e","r","g","e","n","c","y">>,             theme |-> "emergency"],
    [word |-> <<"m","a","i","n","t","e","n","a","n","c","e">>,     theme |-> "maintenance"],
    [word |-> <<"r","e","p","a","i","r">>,                         theme |-> "repair"],
    [word |-> <<"i","n","s","t","a","l","l","a","t","i","o","n">>, theme |-> "installation"],
    [word |-> <<"q","u","o","t","e">>,                             theme |-> "quote"],
    [word |-> <<"n","a","m","e">>,                                 theme |-> "personal_info"],
    [word |-> <<"a","d","d","r","e","s","s">>,                     theme |-> "personal_info"],
    [word |-> <<"s","c","h","e","d","u","l","e">>,                 theme |-> "scheduling"],
    [word |-> <<"a","p","p","o","i","n","t","m","e","n","t">>,     theme |-> "scheduling"] >>

orchestratorExtractThemes(text) ==
    {OrchestratorThemeKeywords[k].theme : k \in {j \in DOMAIN OrchestratorThemeKeywords :
                       includes(toLowerCase(text), OrchestratorThemeKeywords[j].word)}}

\* orchestratorExtractThemes and the urgency check, tabulated over the candidates
OrchestratorThemesOf == [prompt \in EnginePrompts |-> orchestratorExtractThemes(prompt)]
UrgentPrompts == {prompt \in EnginePrompts : includes(toLowerCase(prompt), Emergency)}

\* ResponseAnalyzer.TERMINAL_INDICATORS and isTerminalState
TERMINAL_INDICATORS == {
    <<"g","o","o","d","b","y","e">>,
    <<"t","h","a","n","k"," ","y","o","u"," ","f","o","r"," ","c","a","l","l","i","n","g">>,
    <<"h","a","v","e"," ","a"," ","n","i","c","e"," ","d","a","y">>,
    <<"i","s"," ","t","h","e","r","e"," ","a","n","y","t","h","i","n","g"," ","e","l","s","e">>,
    <<"e","n","d"," ","o","f"," ","o","u","r"," ","c","a","l","l">>,
    <<"h","a","v","e"," ","a"," ","g","r","e","a","t">>,
    <<"b","y","e">> }

isTerminalState(response, hasIdentifiedPaths) ==
    IF hasIdentifiedPaths THEN FALSE
    ELSE \E indicator \in TERMINAL_INDICATORS : includes(response, indicator)

TerminalResponses == {response \in EngineResponses : isTerminalState(toLowerCase(response), FALSE)}

\* the result of analyzeResponse: the candidates come from the analyzer's
\* context and from the language model, any of the lists of PathLists
Analysis(response, identifiedPaths) ==
    [identifiedPaths |-> identifiedPaths,
     isTerminalState |-> identifiedPaths = <<>> /\ response \in TerminalResponses]

\* a task of the callQueue
Task(parentId, prompt, priority) ==
    [parentId |-> parentId, prompt |-> prompt, priority |-> priority]
NoTask == Task(NULL, <<>>, 0)

\* calculatePathPriority, in a Discovery State
calculatePathPriority(prompt, st) ==
    LET promptThemes == OrchestratorThemesOf[prompt]
        newThemes == promptThemes \ st.exploredThemes
        activeThemeOverlap == promptThemes \cap st.activeThemes
    IN  Cardinality(newThemes) * 2
        + (IF prompt \in UrgentPrompts THEN 3 ELSE 0)
        - Cardinality(activeThemeOverlap)

\* callQueue.sort((a, b) => b.priority - a.priority): stable, descending
RECURSIVE insertTask(_, _)
insertTask(task, sorted) ==
    IF sorted = <<>> THEN <<task>>
    ELSE IF Head(sorted).priority - task.priority < 0 THEN <<task>> \o sorted
    ELSE <<Head(sorted)>> \o insertTask(task, Tail(sorted))

RECURSIVE sortQueue(_)
sortQueue(queue) ==
    IF queue = <<>> THEN <<>>
    ELSE insertTask(queue[Len(queue)], sortQueue(SubSeq(queue, 1, Len(queue) - 1)))

\* shouldRetryCall
shouldRetryCall(call) == call.priority > -2

\* calls lists the outcomes of the calls of startCall: a call the API rejected,
\* or the state of the call it started, whose id is "call_k" for the k-th entry
callIdOf(k) == "call_" \o ToString(k)
newCallId == callIdOf(Len(calls) + 1)
\* an id the API never issued
MissingCallId == "call_404"
IN_FLIGHT == "in-flight"
REJECTED == "rejected"

\* the calls the API started that the webhook has not reported
inFlight == {k \in DOMAIN calls : calls[k] = IN_FLIGHT}

\* findNodeByCallId: the first node, in the order of the Map, with this callId
findNodeByCallId(callId) ==
    LET found == SelectSeq(order, LAMBDA id : nodes[id].callId = callId)
    IN  IF found = <<>> THEN NULL ELSE Head(found)

\* a suspended invocation of an async handler: the await it is suspended at
\* (pc) and its local variables
Handler(kind, pc, nodeId, text, retryCount, wakeAt) ==
    [kind |-> kind, pc |-> pc, nodeId |-> nodeId, text |-> text,
     retryCount |-> retryCount, wakeAt |-> wakeAt]
suspended(h) == SetToBag({h})
handlers == BagToSet(pending)

\* the processCallQueue chain: "idle" before the first call of processCallQueue,
\* "timer" between two cycles, "pacing" and "startCall" inside initiateCall,
\* "stopped" once processCallQueue has returned without scheduling the next cycle
Drain(pc, nextCall, wakeAt) == [pc |-> pc, nextCall |-> nextCall, wakeAt |-> wakeAt]
NoDrain == Drain("idle", NoTask, 0)

NoTime == -1
NoEvent == [op |-> "none", callId |-> NULL, error |-> "", resolved |-> NoTask,
            outcome |-> "", attempted |-> NoTask, invoked |-> FALSE,
            lastStartCallAt |-> NoTime, reportedWhileStopped |-> {}]
\* the record of a step: invoked tells whether the step called startCall,
\* lastStartCallAt when startCall was last called, reportedWhileStopped which
\* calls the webhook reported completed while the engine was not running
Step(op, invoked) ==
    [NoEvent EXCEPT !.op = op, !.invoked = invoked,
                    !.lastStartCallAt = IF invoked THEN now ELSE event.lastStartCallAt,
                    !.reportedWhileStopped = event.reportedWhileStopped]

NoCycle == [open |-> FALSE, active |-> 0, inFlight |-> 0, queue |-> <<>>,
            attempts |-> <<>>]

AlreadyRunning == "Discovery process is already running"
FailedToInitiateCall == "Failed to initiate call"

\* initiateCall up to its first await: the pacing delay if the last call is too
\* recent, the call of startCall if not
initiateCall(lastCallTime) ==
    LET timeSinceLastCall == now - lastCallTime IN
    IF timeSinceLastCall < config.minTimeBetweenCalls
    THEN [pc |-> "pacing", wakeAt |-> now + (config.minTimeBetweenCalls - timeSinceLastCall)]
    ELSE [pc |-> "startCall", wakeAt |-> 0]

\* the while loop of processCallQueue from its condition to its next await, in
\* Discovery State st with queue queue: the next task is shifted and its
\* dispatch begun, or the loop ends and the finally block schedules the next cycle
loopHead(st, queue) ==
    IF st.activeCallCount < config.maxConcurrentCalls /\ Len(queue) > 0
    THEN LET call == initiateCall(st.lastCallTime) IN
         [drain |-> Drain(call.pc, Head(queue), call.wakeAt), callQueue |-> Tail(queue),
          attempted |-> Head(queue), invoked |-> call.pc = "startCall"]
    ELSE [drain |-> Drain("timer", NoTask, now + config.minTimeBetweenCalls),
          callQueue |-> queue, attempted |-> NoTask, invoked |-> FALSE]

\* the cycle record after the loop went on to r from cycle record c
cycleAfter(c, r) ==
    IF r.drain.pc = "timer" THEN NoCycle
    ELSE [c EXCEPT !.attempts = Append(@, r.attempted)]
\* the record of a cycle that starts in Discovery State st with queue queue
cycleStart(st, queue) ==
    [open |-> TRUE, active |-> st.activeCallCount, inFlight |-> Cardinality(inFlight),
     queue |-> queue, attempts |-> <<>>]

\* faulty variant: a stopped engine no longer counts
updateStateAfterCallWhileRunning(st, newThemes) ==
    IF ~st.isRunning THEN st
    ELSE [st EXCEPT !.activeCallCount = @ - 1,
                    !.completedCallCount = @ + 1,
                    !.exploredThemes = @ \cup newThemes,
                    !.activeThemes = @ \ newThemes]

\* updateStateAfterCall
updateStateAfterCall(st, newThemes) ==
    [st EXCEPT !.activeCallCount = @ - 1,
               !.completedCallCount = @ + 1,
               !.exploredThemes = @ \cup newThemes,
               !.activeThemes = @ \ newThemes]

\* updateActiveThemes
updateActiveThemes(st, prompt) ==
    [st EXCEPT !.activeThemes = @ \cup OrchestratorThemesOf[prompt]]

\* queueNewPaths, in Discovery State st
queueNewPaths(queue, parentId, paths, st) ==
    sortQueue(queue \o [i \in DOMAIN paths |->
                          Task(parentId, paths[i], calculatePathPriority(paths[i], st))])

(***************************************************************************)
(* DiscoveryOrchestrator: the handlers, one action per stretch between     *)
(* awaits.                                                                 *)
(***************************************************************************)
\* startDiscovery up to the first await of initiateCall
StartDiscovery ==
    IF state.isRunning
    THEN /\ event' = [Step("StartDiscovery", FALSE) EXCEPT !.error = AlreadyRunning]
         /\ UNCHANGED <<treeVars, last, config, analyzerVars, state, callQueue, now, calls, pending,
                        drain, strayEvents, cycle>>
    ELSE LET call == initiateCall(state.lastCallTime) IN
         /\ state' = [state EXCEPT !.isRunning = TRUE]
         /\ pending' = pending (+) suspended(Handler("startDiscovery", call.pc, NULL,
                                      createInitialSystemPrompt, 0, call.wakeAt))
         /\ event' = Step("StartDiscovery", call.pc = "startCall")
         /\ UNCHANGED <<treeVars, last, config, analyzerVars, callQueue, now, calls, drain,
                        strayEvents, cycle>>

\* stopDiscovery
StopDiscovery ==
    /\ state' = [state EXCEPT !.isRunning = FALSE]
    /\ event' = Step("StopDiscovery", FALSE)
    /\ UNCHANGED <<treeVars, last, config, analyzerVars, callQueue, now, calls, pending, drain,
                   strayEvents, cycle>>

\* the pacing delay of initiateCall is over: a handler calls startCall
PacingElapsed(h) ==
    /\ h.pc = "pacing" /\ now >= h.wakeAt
    /\ pending' = (pending (-) suspended(h)) (+) suspended([h EXCEPT !.pc = "startCall",
                                                                    !.wakeAt = 0])
    /\ event' = Step("PacingElapsed", TRUE)
    /\ UNCHANGED <<treeVars, last, config, analyzerVars, state, callQueue, now, calls, drain,
                   strayEvents, cycle>>

\* the same in the drain loop
DrainPacingElapsed ==
    /\ drain.pc = "pacing" /\ now >= drain.wakeAt
    /\ drain' = [drain EXCEPT !.pc = "startCall", !.wakeAt = 0]
    /\ event' = Step("DrainPacingElapsed", TRUE)
    /\ UNCHANGED <<treeVars, last, config, analyzerVars, state, callQueue, now, calls, pending,
                   strayEvents, cycle>>

\* startDiscovery from the return of startCall: ok tells whether the API
\* started the call
StartDiscoveryCallResolved(h, ok) ==
    /\ h.kind = "startDiscovery" /\ h.pc = "startCall"
    /\ pending' = pending (-) suspended(h)
    /\ UNCHANGED <<config, analyzerVars, now, strayEvents>>
    /\ IF ~ok
       THEN /\ calls' = Append(calls, REJECTED)
            /\ state' = [state EXCEPT !.isRunning = FALSE]
            /\ event' = [Step("StartDiscoveryCallResolved", FALSE) EXCEPT
                            !.error = FailedToInitiateCall]
            /\ UNCHANGED <<treeVars, last, callQueue, drain, cycle>>
       ELSE /\ calls' = Append(calls, IN_FLIGHT)
            /\ InitializeRoot(h.text, newCallId)
            /\ IF last'.error # ""
               THEN /\ state' = [state EXCEPT !.lastCallTime = now, !.isRunning = FALSE]
                    /\ event' = [Step("StartDiscoveryCallResolved", FALSE) EXCEPT
                                    !.callId = newCallId, !.error = last'.error]
                    /\ UNCHANGED <<callQueue, drain, cycle>>
               ELSE LET st == [state EXCEPT !.lastCallTime = now,
                                            !.activeCallCount = @ + 1]
                        r == loopHead(st, callQueue)
                    IN  /\ state' = st
                        /\ IF st.isRunning
                           THEN /\ callQueue' = r.callQueue
                                /\ drain' = r.drain
                                /\ cycle' = cycleAfter(cycleStart(st, callQueue), r)
                                /\ event' = [Step("StartDiscoveryCallResolved", r.invoked) EXCEPT
                                                !.callId = newCallId,
                                                !.attempted = r.attempted]
                           ELSE /\ event' = [Step("StartDiscoveryCallResolved", FALSE) EXCEPT
                                                !.callId = newCallId]
                                /\ UNCHANGED <<callQueue, drain, cycle>>

\* processCallQueue, called by the timer of the previous cycle
DrainTimer ==
    /\ drain.pc = "timer" /\ now >= drain.wakeAt
    /\ UNCHANGED <<treeVars, last, config, analyzerVars, state, now, calls, pending, strayEvents>>
    /\ IF ~state.isRunning
       THEN /\ drain' = Drain("stopped", NoTask, 0)
            /\ event' = Step("DrainTimer", FALSE)
            /\ UNCHANGED <<callQueue, cycle>>
       ELSE LET r == loopHead(state, callQueue) IN
            /\ callQueue' = r.callQueue
            /\ drain' = r.drain
            /\ cycle' = cycleAfter(cycleStart(state, callQueue), r)
            /\ event' = [Step("DrainTimer", r.invoked) EXCEPT
                            !.attempted = r.attempted]

\* processCallQueue from the return of startCall to the next await
DrainCallResolved(ok) ==
    /\ drain.pc = "startCall"
    /\ UNCHANGED <<config, analyzerVars, now, pending, strayEvents>>
    /\ IF ok
       THEN /\ calls' = Append(calls, IN_FLIGHT)
            /\ AddNode(drain.nextCall.parentId, drain.nextCall.prompt, newCallId)
       ELSE calls' = Append(calls, REJECTED) /\ UNCHANGED <<treeVars, last>>
    /\ LET nextCall == drain.nextCall
           dispatched == ok /\ addNodeError(nextCall.parentId, nextCall.prompt) = ""
           called == IF ok THEN [state EXCEPT !.lastCallTime = now] ELSE state
           st == IF dispatched
                 THEN updateActiveThemes([called EXCEPT !.activeCallCount = @ + 1],
                                         nextCall.prompt)
                 ELSE called
           queue == IF ~dispatched /\ shouldRetryCall(nextCall)
                    THEN Append(callQueue, [nextCall EXCEPT !.priority = @ - 1])
                    ELSE callQueue
           r == loopHead(st, queue)
       IN  /\ state' = st
           /\ callQueue' = r.callQueue
           /\ drain' = r.drain
           /\ cycle' = cycleAfter(cycle, r)
           /\ event' = [Step("DrainCallResolved", r.invoked) EXCEPT
                           !.callId = IF ok THEN newCallId ELSE NULL,
                           !.resolved = nextCall,
                           !.outcome = IF dispatched THEN "dispatched"
                                       ELSE IF shouldRetryCall(nextCall) THEN "requeued"
                                       ELSE "dropped",
                           !.attempted = r.attempted]

\* handleCallCompleted up to the await of analyzeResponse
HandleCallCompleted(callId, response) ==
    LET node == findNodeByCallId(callId) IN
    /\ event' = [Step("HandleCallCompleted", FALSE) EXCEPT
                    !.callId = callId,
                    !.reportedWhileStopped = IF state.isRunning \/ node = NULL THEN @
                                             ELSE @ \cup {callId}]
    /\ IF node = NULL
       THEN /\ state' = [state EXCEPT !.failedCallCount = @ + 1]
            /\ UNCHANGED pending
       ELSE /\ pending' = pending (+) suspended(Handler("handleCallCompleted",
                                         "analyzeResponse", node, response, 0, 0))
            /\ UNCHANGED state
    /\ UNCHANGED <<treeVars, last, config, analyzerVars, callQueue, now, drain, cycle>>

\* the webhook reports the recording of call k: its transcript is response
CallCompleted(k, response) ==
    /\ calls[k] = IN_FLIGHT
    /\ calls' = [calls EXCEPT ![k] = COMPLETED]
    /\ HandleCallCompleted(callIdOf(k), response)
    /\ UNCHANGED strayEvents

\* the webhook's second notification for call k: the API reports a call with
\* the status "completed" and with the status "event_recording", and the
\* webhook passes the transcript to handleCallCompleted for both
RECORDED == "recorded"
RecordingReported(k, response) ==
    /\ calls[k] = COMPLETED
    /\ calls' = [calls EXCEPT ![k] = RECORDED]
    /\ HandleCallCompleted(callIdOf(k), response)
    /\ UNCHANGED strayEvents

\* handleCallCompleted from the return of analyzeResponse, which identified
\* the candidates identifiedPaths
AnalysisReturned(h, identifiedPaths) ==
    /\ h.kind = "handleCallCompleted"
    /\ pending' = pending (-) suspended(h)
    /\ UpdateNodeWithResponse(h.nodeId, h.text, Defined(identifiedPaths))
    /\ LET analysis == Analysis(h.text, identifiedPaths)
           newThemes == last'.retThemes
           st == updateStateAfterCall(state, newThemes)
       IN  /\ state' = st
           /\ callQueue' = IF ~analysis.isTerminalState
                           THEN queueNewPaths(callQueue, h.nodeId, analysis.identifiedPaths, st)
                           ELSE callQueue
    /\ event' = Step("AnalysisReturned", FALSE)
    /\ UNCHANGED <<config, analyzerVars, now, calls, drain, strayEvents, cycle>>

\* handleCallFailed up to its first await, or to its end if it has none
HandleCallFailed(callId) ==
    LET node == findNodeByCallId(callId) IN
    /\ event' = [Step("HandleCallFailed", FALSE) EXCEPT !.callId = callId]
    /\ IF node # NULL /\ nodes[node].retryCount < MAX_RETRY_ATTEMPTS
       THEN /\ pending' = pending (+) suspended(Handler("handleCallFailed", "retryDelay",
                              node, nodes[node].systemPrompt, nodes[node].retryCount,
                              now + config.retryDelayMs * (nodes[node].retryCount + 1)))
            /\ UNCHANGED state
       ELSE /\ state' = [state EXCEPT
                  !.failedCallCount = IF node # NULL THEN @ + 1 ELSE @,
                  !.activeCallCount = @ - 1]
            /\ UNCHANGED pending
    /\ UNCHANGED <<treeVars, last, config, analyzerVars, callQueue, now, drain, cycle>>

\* the webhook reports that call k failed
CallFailed(k) ==
    /\ calls[k] = IN_FLIGHT
    /\ calls' = [calls EXCEPT ![k] = FAILED]
    /\ HandleCallFailed(callIdOf(k))
    /\ UNCHANGED strayEvents

\* the webhook reports once more that call k failed
FAILED_AGAIN == "failed-again"
FailureReportedAgain(k) ==
    /\ calls[k] = FAILED
    /\ calls' = [calls EXCEPT ![k] = FAILED_AGAIN]
    /\ HandleCallFailed(callIdOf(k))
    /\ UNCHANGED strayEvents

\* handleCallFailed from the end of the retry delay to the next await
RetryDelayElapsed(h) ==
    /\ h.kind = "handleCallFailed" /\ h.pc = "retryDelay" /\ now >= h.wakeAt
    /\ LET call == initiateCall(state.lastCallTime) IN
       /\ pending' = (pending (-) suspended(h))
                        (+) suspended([h EXCEPT !.pc = call.pc, !.wakeAt = call.wakeAt])
       /\ event' = Step("RetryDelayElapsed", call.pc = "startCall")
    /\ UNCHANGED <<treeVars, last, config, analyzerVars, state, callQueue, now, calls, drain,
                   strayEvents, cycle>>

\* handleCallFailed from the return of startCall
RetryCallResolved(h, ok) ==
    /\ h.kind = "handleCallFailed" /\ h.pc = "startCall"
    /\ pending' = pending (-) suspended(h)
    /\ IF ok
       THEN /\ calls' = Append(calls, IN_FLIGHT)
            /\ nodes' = [nodes EXCEPT ![h.nodeId].callId = newCallId,
                                      ![h.nodeId].retryCount = h.retryCount + 1]
            /\ state' = [state EXCEPT !.lastCallTime = now, !.activeCallCount = @ - 1]
            /\ event' = [Step("RetryCallResolved", FALSE) EXCEPT !.callId = newCallId]
       ELSE /\ calls' = Append(calls, REJECTED)
            /\ event' = Step("RetryCallResolved", FALSE)
            /\ UNCHANGED <<nodes, state>>
    /\ UNCHANGED <<maxDepth, order, rootNode, exploredSignatures, last, config, analyzerVars,
                   callQueue, now, drain, strayEvents, cycle>>

\* an event for a call id that is not the callId of any node
StrayCallCompleted(response) ==
    /\ strayEvents' = strayEvents + 1
    /\ HandleCallCompleted(MissingCallId, response)
    /\ UNCHANGED calls

StrayCallFailed ==
    /\ strayEvents' = strayEvents + 1
    /\ HandleCallFailed(MissingCallId)
    /\ UNCHANGED calls

\* time passes
Tick ==
    /\ now' = now + 1
    /\ event' = Step("Tick", FALSE)
    /\ UNCHANGED <<treeVars, last, config, analyzerVars, state, callQueue, calls, pending, drain,
                   strayEvents, cycle>>

(***************************************************************************)
(* ResponseAnalyzer (src/src/analyzer/responseAnalyzer.ts): the context it *)
(* keeps from one transcript to the next and analyzeResponse.  A prompt it *)
(* builds from a template is the template's name and the text put into it; *)
(* the confidence is in hundredths.                                        *)
(***************************************************************************)
\* this.context after the constructor (customerPreferences, which nothing
\* writes, is left out)
NewContext == [businessType |-> "", requestedInfo |-> <<>>, servicesDiscussed |-> <<>>]
NoAnalysis == [identifiedPaths |-> <<>>, isTerminalState |-> FALSE, confidence |-> 0]

\* the words and phrases the analyzer looks for in a transcript
Keyword == [
    your_name |-> <<"y","o","u","r"," ","n","a","m","e">>,
    your_full_name |-> <<"y","o","u","r"," ","f","u","l","l"," ","n","a","m","e">>,
    address |-> <<"a","d","d","r","e","s","s">>,
    location |-> <<"l","o","c","a","t","i","o","n">>,
    where |-> <<"w","h","e","r","e">>,
    located |-> <<"l","o","c","a","t","e","d">>,
    phone |-> <<"p","h","o","n","e">>,
    number |-> <<"n","u","m","b","e","r">>,
    contact |-> <<"c","o","n","t","a","c","t">>,
    email |-> <<"e","m","a","i","l">>,
    e_mail |-> <<"e","-","m","a","i","l">>,
    existing_customer |-> <<"e","x","i","s","t","i","n","g"," ","c","u","s","t","o","m","e","r">>,
    current_customer |-> <<"c","u","r","r","e","n","t"," ","c","u","s","t","o","m","e","r">>,
    previous_customer |-> <<"p","r","e","v","i","o","u","s"," ","c","u","s","t","o","m","e","r">>,
    air_conditioning |-> <<"a","i","r"," ","c","o","n","d","i","t","i","o","n","i","n","g">>,
    plumbing |-> <<"p","l","u","m","b","i","n","g">>,
    hvac |-> <<"h","v","a","c">>,
    heating |-> <<"h","e","a","t","i","n","g">>,
    auto |-> <<"a","u","t","o">>,
    car |-> <<"c","a","r">>,
    dealership |-> <<"d","e","a","l","e","r","s","h","i","p">>,
    vehicle |-> <<"v","e","h","i","c","l","e">>,
    ac |-> <<"a","c">>,
    heat |-> <<"h","e","a","t">>,
    plumb |-> <<"p","l","u","m","b">>,
    pipe |-> <<"p","i","p","e">>,
    maintenance |-> <<"m","a","i","n","t","e","n","a","n","c","e">>,
    emergency |-> <<"e","m","e","r","g","e","n","c","y">>,
    new_car |-> <<"n","e","w"," ","c","a","r">>,
    new_vehicle |-> <<"n","e","w"," ","v","e","h","i","c","l","e">>,
    used |-> <<"u","s","e","d">>,
    pre_owned |-> <<"p","r","e","-","o","w","n","e","d">>,
    service |-> <<"s","e","r","v","i","c","e">>,
    repair |-> <<"r","e","p","a","i","r">>,
    trade |-> <<"t","r","a","d","e">>,
    test_drive |-> <<"t","e","s","t"," ","d","r","i","v","e">> ]

\* RegExp.test for a pattern literal.*literal...: the parts occur in this order
RECURSIVE matchesInOrder(_, _)
matchesInOrder(text, parts) ==
    IF parts = <<>> THEN TRUE
    ELSE LET part == Head(parts)
             starts == {i \in 1..(Len(text) - Len(part) + 1) :
                          SubSeq(text, i, i + Len(part) - 1) = part}
         IN  IF starts = {} THEN FALSE
             ELSE LET first == CHOOSE i \in starts : \A j \in starts : i <= j
                  IN  matchesInOrder(SubSeq(text, first + Len(part), Len(text)), Tail(parts))

\* INFO_REQUEST_PATTERNS: the alternatives of each pattern
INFO_REQUEST_PATTERNS == <<
    [pattern |-> {<<Keyword.your_name>>, <<Keyword.your_full_name>>}, info |-> "name"],
    [pattern |-> {<<Keyword.address>>, <<Keyword.location>>,
                  <<Keyword.where, Keyword.located>>}, info |-> "address"],
    [pattern |-> {<<Keyword.phone, Keyword.number>>, <<Keyword.contact, Keyword.number>>},
     info |-> "phone"],
    [pattern |-> {<<Keyword.email>>, <<Keyword.e_mail>>}, info |-> "email"],
    [pattern |-> {<<Keyword.existing_customer>>, <<Keyword.current_customer>>,
                  <<Keyword.previous_customer>>}, info |-> "customer_status"] >>

\* detectBusinessType
detectBusinessType(response) ==
    LET normalizedResponse == toLowerCase(response) IN
    IF \E word \in {Keyword.air_conditioning, Keyword.plumbing, Keyword.hvac, Keyword.heating} :
          includes(normalizedResponse, word)
    THEN "hvac_plumbing"
    ELSE IF \E word \in {Keyword.auto, Keyword.car, Keyword.dealership, Keyword.vehicle} :
          includes(normalizedResponse, word)
    THEN "auto_dealership"
    ELSE "general_business"

\* extractDiscussedServices: the keywords of each service, in the order the
\* services are added to the Set
SERVICE_KEYWORDS == [
    hvac_plumbing |-> <<
        [words |-> {Keyword.ac, Keyword.air_conditioning}, service |-> "ac_service"],
        [words |-> {Keyword.heat, Keyword.heating}, service |-> "heating"],
        [words |-> {Keyword.plumb, Keyword.pipe}, service |-> "plumbing"],
        [words |-> {Keyword.maintenance}, service |-> "maintenance"],
        [words |-> {Keyword.emergency}, service |-> "emergency_service"] >>,
    auto_dealership |-> <<
        [words |-> {Keyword.new_car, Keyword.new_vehicle}, service |-> "new_car_sales"],
        [words |-> {Keyword.used, Keyword.pre_owned}, service |-> "used_car_sales"],
        [words |-> {Keyword.service, Keyword.repair}, service |-> "service_department"],
        [words |-> {Keyword.trade}, service |-> "trade_in"],
        [words |-> {Keyword.test_drive}, service |-> "test_drive"] >>,
    general_business |-> <<>> ]

extractDiscussedServices(ctx, response) ==
    LET normalizedResponse == toLowerCase(response)
        table == SERVICE_KEYWORDS[ctx.businessType]
        mentioned == SelectSeq(table, LAMBDA row :
                        \E word \in row.words : includes(normalizedResponse, word))
    IN  [i \in DOMAIN mentioned |-> mentioned[i].service]

\* updateConversationContext
updateConversationContext(ctx, response) ==
    LET matching == SelectSeq(INFO_REQUEST_PATTERNS, LAMBDA row :
                       \E parts \in row.pattern : matchesInOrder(toLowerCase(response), parts))
        requestedInfo == [i \in DOMAIN matching |-> matching[i].info]
        servicesDiscussed == extractDiscussedServices(ctx, response)
    IN  [ctx EXCEPT !.requestedInfo = @ \o requestedInfo,
                    !.servicesDiscussed = @ \o servicesDiscussed]

\* service.replace(/_/g, " ")
serviceName == [ac_service |-> "ac service", heating |-> "heating", plumbing |-> "plumbing",
                maintenance |-> "maintenance", emergency_service |-> "emergency service",
                new_car_sales |-> "new car sales", used_car_sales |-> "used car sales",
                service_department |-> "service department", trade_in |-> "trade in",
                test_drive |-> "test drive"]

Prompt(template, subject) == [template |-> template, subject |-> subject]
createInfoProvisionPrompt(ctx) == Prompt("InfoProvision", ctx.requestedInfo)
createInfoAvoidancePrompt == Prompt("InfoAvoidance", <<>>)
createServiceSpecificPrompt(service) == Prompt("ServiceSpecific", <<serviceName[service]>>)
createDefaultSystemPrompt == Prompt("DefaultSystem", <<>>)

\* generateResponses (the language model): it throws, or returns up to
\* maxResponses = 3 prompts
Generated(throws, prompts) == [throws |-> throws, prompts |-> prompts]
GeneratorResults ==
    {Generated(TRUE, <<>>), Generated(FALSE, <<>>),
     Generated(FALSE, <<Prompt("Generated", <<"1">>), Prompt("Generated", <<"2">>)>>)}

\* generateContextualPrompts: the prompts from the context, then those of
\* the language model
generateContextualPrompts(ctx, aiPrompts) ==
    (IF ctx.requestedInfo # <<>>
     THEN <<createInfoProvisionPrompt(ctx), createInfoAvoidancePrompt>> ELSE <<>>)
    \o [i \in DOMAIN ctx.servicesDiscussed |->
          createServiceSpecificPrompt(ctx.servicesDiscussed[i])]
    \o aiPrompts

\* calculateConfidence, in hundredths
calculateConfidence(paths, ctx) ==
    LET min(a, b) == IF a < b THEN a ELSE b
        confidence == min(Len(paths) * 20, 80)
                      + (IF ctx.businessType # "general_business" THEN 10 ELSE 0)
                      + (IF Len(ctx.requestedInfo) > 0 THEN 5 ELSE 0)
                      + (IF Len(ctx.servicesDiscussed) > 0 THEN 5 ELSE 0)
    IN  min(confidence, 100)

\* analyzeResponse: generated is what generateResponses does when it is called
AnalyzeResponse(response, generated) ==
    LET detected == IF analyzerContext.businessType = ""
                    THEN [analyzerContext EXCEPT
                             !.businessType = detectBusinessType(response)]
                    ELSE analyzerContext
        updated == updateConversationContext(detected, response)
        identifiedPaths == generateContextualPrompts(updated, generated.prompts)
    IN  /\ analyzerContext' = updated
        /\ analysisResult' =
              IF generated.throws
              THEN [identifiedPaths |-> <<createDefaultSystemPrompt>>,
                    isTerminalState |-> FALSE, confidence |-> 30]
              ELSE [identifiedPaths |-> identifiedPaths,
                    isTerminalState |-> isTerminalState(toLowerCase(response),
                                                        Len(identifiedPaths) > 0),
                    confidence |-> calculateConfidence(identifiedPaths, updated)]
        /\ last' = [NoCall EXCEPT !.op = "analyzeResponse", !.text = response]
        /\ UNCHANGED <<treeVars, config, state, callQueue, now, calls, pending, drain,
                       strayEvents, event, cycle>>

(***************************************************************************)
(* The orchestrator after its constructor.                                 *)
(***************************************************************************)
DEFAULT_CONFIG == Config(3, 500, 1000)

\* Date.now() at construction: far more than any interval after the epoch, so
\* the first call is never delayed
Epoch == config.minTimeBetweenCalls

EngineConstructed ==
    /\ state = InitialState
    /\ callQueue = <<>>
    /\ now = Epoch
    /\ calls = <<>>
    /\ pending = EmptyBag
    /\ drain = NoDrain
    /\ strayEvents = 0
    /\ event = NoEvent
    /\ cycle = NoCycle
    /\ analyzerContext = NewContext
    /\ analysisResult = NoAnalysis

(***************************************************************************)
(* Spec: the structure of the tree under every sequence of initializeRoot  *)
(* and addNode calls.                                                      *)
(***************************************************************************)
EmptyTree ==
    /\ nodes = <<>>
    /\ order = <<>>
    /\ rootNode = NULL
    /\ exploredSignatures = {}
    /\ last = NoCall

\* the tree on its own: the orchestrator of the second part stays as built
EngineUnused == config = DEFAULT_CONFIG /\ EngineConstructed

Init == maxDepth \in 1..MaxDepthBound /\ EmptyTree /\ EngineUnused

\* the bound: a call that would add a node is made only below MaxNodes nodes
mayAdd(parentId, systemPrompt) ==
    IF addNodeError(parentId, systemPrompt) = ""
    THEN Cardinality(nodeIds) < MaxNodes
    ELSE TRUE

Next ==
    \/ \E systemPrompt \in RootPrompts :
          InitializeRoot(systemPrompt, freshCallId) /\ UNCHANGED engineVars
    \/ \E parentId \in nodeIds \cup {MissingId}, systemPrompt \in ChildPrompts :
          /\ mayAdd(parentId, systemPrompt)
          /\ AddNode(parentId, systemPrompt, freshCallId)
          /\ UNCHANGED engineVars

Spec == Init /\ [][Next]_vars

(***************************************************************************)
(* SpecFan: a tree of maximum depth 2 (the depth of the tree test) filled   *)
(* with themeless prompts, enough of them to reach the fan-out limit.      *)
(***************************************************************************)
FanDepths == {2}

InitFan == maxDepth \in FanDepths /\ EmptyTree /\ EngineUnused

NextFan ==
    \/ \E systemPrompt \in RootPrompts :
          InitializeRoot(systemPrompt, freshCallId) /\ UNCHANGED engineVars
    \/ \E parentId \in nodeIds \cup {MissingId}, systemPrompt \in FanPrompts :
          AddNode(parentId, systemPrompt, freshCallId) /\ UNCHANGED engineVars

SpecFan == InitFan /\ [][NextFan]_vars

(***************************************************************************)
(* SpecUpdate: a tree of up to three nodes (the prompts allow no more)      *)
(* whose nodes complete, any number of times, and are queried for          *)
(* expansion.                                                              *)
(***************************************************************************)
UpdateDepths == {2, 3}
UpdatePrompts == {IntroVariant, ScheduleVisit, RepairQuote}

InitUpdate == maxDepth \in UpdateDepths /\ EmptyTree /\ EngineUnused

NextUpdate ==
    \/ \E systemPrompt \in RootPrompts :
          InitializeRoot(systemPrompt, freshCallId) /\ UNCHANGED engineVars
    \/ \E parentId \in nodeIds \cup {MissingId}, systemPrompt \in UpdatePrompts :
          AddNode(parentId, systemPrompt, freshCallId) /\ UNCHANGED engineVars
    \/ \E nodeId \in nodeIds \cup {MissingId}, response \in Responses,
          potentialPrompts \in CandidateLists :
          /\ UpdateNodeWithResponse(nodeId, response, potentialPrompts)
          /\ UNCHANGED engineVars
    \/ GetNodesWithUnexploredPaths /\ UNCHANGED engineVars

SpecUpdate == InitUpdate /\ [][NextUpdate]_vars

(***************************************************************************)
(* SpecEngine: the orchestrator under every interleaving of its handlers,  *)
(* of the events of the webhook and of the outcomes of startCall, with no  *)
(* pacing interval and no retry delay (both 0), so that time plays no      *)
(* part.                                                                   *)
(***************************************************************************)
EngineDepths == {2}
EngineConfigs == {Config(1, 0, 0)}
PathLists == {<<>>, <<Hello, Emergency>>}

InitEngine ==
    /\ maxDepth \in EngineDepths
    /\ EmptyTree
    /\ config \in EngineConfigs
    /\ EngineConstructed

\* the bounds: startCall returns at most MaxCalls times, at most MaxStarts
\* invocations of startDiscovery are suspended at a time
mayCall == Len(calls) < MaxCalls
mayStart ==
    state.isRunning \/ Cardinality({h \in handlers : h.kind = "startDiscovery"}) < MaxStarts

NextEngine ==
    \/ mayStart /\ StartDiscovery
    \/ StopDiscovery
    \/ \E h \in handlers, ok \in BOOLEAN : mayCall /\ StartDiscoveryCallResolved(h, ok)
    \/ DrainTimer
    \/ \E ok \in BOOLEAN : mayCall /\ DrainCallResolved(ok)
    \/ \E k \in DOMAIN calls, response \in EngineResponses : CallCompleted(k, response)
    \/ \E h \in handlers, identifiedPaths \in PathLists : AnalysisReturned(h, identifiedPaths)
    \/ \E k \in DOMAIN calls : CallFailed(k)
    \/ \E h \in handlers : RetryDelayElapsed(h)
    \/ \E h \in handlers, ok \in BOOLEAN : mayCall /\ RetryCallResolved(h, ok)

SpecEngine == InitEngine /\ [][NextEngine]_vars

(***************************************************************************)
(* SpecRetry: the same without stopDiscovery, an engine that keeps         *)
(* running.                                                                *)
(***************************************************************************)
NextRetry ==
    \/ mayStart /\ StartDiscovery
    \/ \E h \in handlers, ok \in BOOLEAN : mayCall /\ StartDiscoveryCallResolved(h, ok)
    \/ DrainTimer
    \/ \E ok \in BOOLEAN : mayCall /\ DrainCallResolved(ok)
    \/ \E k \in DOMAIN calls, response \in EngineResponses : CallCompleted(k, response)
    \/ \E h \in handlers, identifiedPaths \in PathLists : AnalysisReturned(h, identifiedPaths)
    \/ \E k \in DOMAIN calls : CallFailed(k)
    \/ \E h \in handlers : RetryDelayElapsed(h)
    \/ \E h \in handlers, ok \in BOOLEAN : mayCall /\ RetryCallResolved(h, ok)

SpecRetry == InitEngine /\ [][NextRetry]_vars

(***************************************************************************)
(* SpecLive: SpecRetry with the scheduling of the platform.  A timer that  *)
(* is due fires, a promise that can be settled is settled (startCall and   *)
(* analyzeResponse return), the webhook reports every call the API         *)
(* started, and a dispatch of the drain loop that is retried long enough   *)
(* is accepted.  Which calls fail and which redispatch is rejected is left *)
(* to the environment.                                                     *)
(***************************************************************************)
Reported == \E k \in DOMAIN calls :
               CallFailed(k) \/ \E response \in EngineResponses : CallCompleted(k, response)

Scheduling ==
    /\ WF_vars(DrainTimer)
    /\ WF_vars(\E ok \in BOOLEAN : mayCall /\ DrainCallResolved(ok))
    /\ SF_vars(mayCall /\ DrainCallResolved(TRUE))
    /\ WF_vars(\E h \in handlers, ok \in BOOLEAN : mayCall /\ StartDiscoveryCallResolved(h, ok))
    /\ WF_vars(Reported)
    /\ WF_vars(\E h \in handlers, identifiedPaths \in PathLists :
                  AnalysisReturned(h, identifiedPaths))
    /\ WF_vars(\E h \in handlers : RetryDelayElapsed(h))
    /\ WF_vars(\E h \in handlers, ok \in BOOLEAN : mayCall /\ RetryCallResolved(h, ok))

SpecLive == InitEngine /\ [][NextRetry]_vars /\ Scheduling

(***************************************************************************)
(* SpecStray: the orchestrator without stops and failed calls, with events *)
(* of the webhook for a call id that no node has.                          *)
(***************************************************************************)
NextStray ==
    \/ mayStart /\ StartDiscovery
    \/ \E h \in handlers, ok \in BOOLEAN : mayCall /\ StartDiscoveryCallResolved(h, ok)
    \/ DrainTimer
    \/ \E ok \in BOOLEAN : mayCall /\ DrainCallResolved(ok)
    \/ \E k \in DOMAIN calls, response \in EngineResponses : CallCompleted(k, response)
    \/ \E h \in handlers, identifiedPaths \in PathLists : AnalysisReturned(h, identifiedPaths)
    \/ \E response \in EngineResponses :
          strayEvents < MaxStrayEvents /\ StrayCallCompleted(response)
    \/ strayEvents < MaxStrayEvents /\ StrayCallFailed

SpecStray == InitEngine /\ [][NextStray]_vars

(***************************************************************************)
(* SpecQueue: the callQueue and the drain loop.  The engine allows two     *)
(* calls at a time, every transcript yields one candidate or five          *)
(* candidates of distinct priority, and startCall may reject a call.       *)
(***************************************************************************)
QueueDepths == {2}
QueueConfigs == {Config(2, 0, 0)}
QueueResponses == {Bye}
FiveCandidates == <<Hello, Repair, RepairQuote, Emergency, EmergencyRepair>>
QueuePathLists == {<<Hello>>, FiveCandidates}

InitQueue ==
    /\ maxDepth \in QueueDepths
    /\ EmptyTree
    /\ config \in QueueConfigs
    /\ EngineConstructed

NextQueue ==
    \/ mayStart /\ StartDiscovery
    \/ \E h \in handlers, ok \in BOOLEAN : mayCall /\ StartDiscoveryCallResolved(h, ok)
    \/ DrainTimer
    \/ \E ok \in BOOLEAN : mayCall /\ DrainCallResolved(ok)
    \/ \E k \in DOMAIN calls, response \in QueueResponses : CallCompleted(k, response)
    \/ \E h \in handlers, identifiedPaths \in QueuePathLists :
          AnalysisReturned(h, identifiedPaths)

SpecQueue == InitQueue /\ [][NextQueue]_vars

(***************************************************************************)
(* SpecPacing: the orchestrator with a clock, a pacing interval of 2 and a *)
(* retry delay of 1.                                                       *)
(***************************************************************************)
PacingDepths == {2}
PacingConfigs == {Config(1, 2, 1)}
PacingResponses == {Bye}
PacingPathLists == {<<Hello, Repair>>}

InitPacing ==
    /\ maxDepth \in PacingDepths
    /\ EmptyTree
    /\ config \in PacingConfigs
    /\ EngineConstructed

NextPacing ==
    \/ now < MaxTime /\ Tick
    \/ mayStart /\ StartDiscovery
    \/ \E h \in handlers, ok \in BOOLEAN : mayCall /\ StartDiscoveryCallResolved(h, ok)
    \/ \E h \in handlers : PacingElapsed(h)
    \/ DrainTimer
    \/ DrainPacingElapsed
    \/ \E ok \in BOOLEAN : mayCall /\ DrainCallResolved(ok)
    \/ \E k \in DOMAIN calls, response \in PacingResponses : CallCompleted(k, response)
    \/ \E h \in handlers, identifiedPaths \in PacingPathLists :
          AnalysisReturned(h, identifiedPaths)
    \/ \E k \in DOMAIN calls : CallFailed(k)
    \/ \E h \in handlers : RetryDelayElapsed(h)
    \/ \E h \in handlers, ok \in BOOLEAN : mayCall /\ RetryCallResolved(h, ok)

SpecPacing == InitPacing /\ [][NextPacing]_vars

(***************************************************************************)
(* SpecSignature: generatePathSignature applied to every utterance of up   *)
(* to MaxLen characters over a letter, a capital letter, the space and a   *)
(* punctuation character.                                                  *)
(***************************************************************************)
UtteranceChars == {"a", "B", " ", ","}
Utterances == UNION {[1..n -> UtteranceChars] : n \in 0..MaxLen}
UtteranceSignature == [prompt \in Utterances |-> generatePathSignature(prompt)]

GeneratePathSignature(prompt) ==
    /\ last' = [NoCall EXCEPT !.op = "generatePathSignature", !.text = prompt,
                              !.retText = UtteranceSignature[prompt]]
    /\ UNCHANGED <<treeVars, engineVars>>

InitSignature ==
    /\ maxDepth \in FanDepths
    /\ nodes = <<>> /\ order = <<>> /\ rootNode = NULL /\ exploredSignatures = {}
    /\ \E prompt \in Utterances : last = [NoCall EXCEPT !.text = prompt]
    /\ EngineUnused

NextSignature == last.op = "none" /\ GeneratePathSignature(last.text)

SpecSignature == InitSignature /\ [][NextSignature]_vars

(***************************************************************************)
(* SpecDispatch: the drain loop with an API that may reject every call.    *)
(* The root's transcript yields one candidate, "hello" (priority 0) or     *)
(* "emergency" (priority 5), and startCall returns up to MaxAttempts       *)
(* times.                                                                  *)
(***************************************************************************)
DispatchPathLists == {<<Hello>>, <<Emergency>>}
mayAttempt == Len(calls) < MaxAttempts

NextDispatch ==
    \/ mayStart /\ StartDiscovery
    \/ \E h \in handlers, ok \in BOOLEAN : mayAttempt /\ StartDiscoveryCallResolved(h, ok)
    \/ DrainTimer
    \/ \E ok \in BOOLEAN : mayAttempt /\ DrainCallResolved(ok)
    \/ \E k \in DOMAIN calls, response \in QueueResponses : CallCompleted(k, response)
    \/ \E h \in handlers, identifiedPaths \in DispatchPathLists :
          AnalysisReturned(h, identifiedPaths)

SpecDispatch == InitEngine /\ [][NextDispatch]_vars

(***************************************************************************)
(* SpecWebhook: the orchestrator without stops and failed calls, under a   *)
(* webhook that notifies it twice of every completed call.                 *)
(***************************************************************************)
WebhookPathLists == {<<Hello>>}

NextWebhook ==
    \/ mayStart /\ StartDiscovery
    \/ \E h \in handlers, ok \in BOOLEAN : mayCall /\ StartDiscoveryCallResolved(h, ok)
    \/ DrainTimer
    \/ \E ok \in BOOLEAN : mayCall /\ DrainCallResolved(ok)
    \/ \E k \in DOMAIN calls, response \in QueueResponses : CallCompleted(k, response)
    \/ \E k \in DOMAIN calls, response \in QueueResponses : RecordingReported(k, response)
    \/ \E h \in handlers, identifiedPaths \in WebhookPathLists :
          AnalysisReturned(h, identifiedPaths)

SpecWebhook == InitEngine /\ [][NextWebhook]_vars

(***************************************************************************)
(* SpecRepeat: the root call and its retries under a webhook that may      *)
(* report the failure of a call twice.  No call completes, so the root is  *)
(* the only node and every call is placed for it.                          *)
(***************************************************************************)
mayRepeat == Len(calls) < MaxRepeatCalls
NextRepeat ==
    \/ mayStart /\ StartDiscovery
    \/ \E h \in handlers, ok \in BOOLEAN : mayRepeat /\ StartDiscoveryCallResolved(h, ok)
    \/ DrainTimer
    \/ \E k \in DOMAIN calls : CallFailed(k)
    \/ \E k \in DOMAIN calls : FailureReportedAgain(k)
    \/ \E h \in handlers : RetryDelayElapsed(h)
    \/ \E h \in handlers, ok \in BOOLEAN : mayRepeat /\ RetryCallResolved(h, ok)

SpecRepeat == InitEngine /\ [][NextRepeat]_vars

(***************************************************************************)
(* SpecAnalyzer: one ResponseAnalyzer that analyzes transcript after       *)
(* transcript until its context holds MaxContext entries.  The language    *)
(* model returns no prompt, two prompts, or fails.                         *)
(***************************************************************************)
AnalyzerResponses ==
    {ResponseOk, Goodbye, ThankYouGoodbye, YourName, NameAndPhone, Heating, NewCar}

InitAnalyzer ==
    /\ maxDepth \in FanDepths
    /\ EmptyTree
    /\ EngineUnused

NextAnalyzer ==
    \E response \in AnalyzerResponses, generated \in GeneratorResults :
       /\ Len(analyzerContext.requestedInfo) + Len(analyzerContext.servicesDiscussed) < MaxContext
       /\ AnalyzeResponse(response, generated)

SpecAnalyzer == InitAnalyzer /\ [][NextAnalyzer]_vars

(***************************************************************************)
(* Properties of the tree structure (Spec, SpecFan).                       *)
(***************************************************************************)
addNodeCalled == last'.op = "addNode" /\ last'.nodeId \in nodeIds

C2_FanOutLimit ==
    /\ [](\A id \in nodeIds : Len(nodes[id].children) <= MAX_CHILDREN_PER_NODE)
    /\ [][(addNodeCalled /\ Len(nodes[last'.nodeId].children) >= MAX_CHILDREN_PER_NODE)
            => (last'.error = MaximumChildrenReached(last'.nodeId) /\ UNCHANGED treeVars)]_vars

C2_Witness ==
    /\ last.op = "addNode" /\ last.error = MaximumChildrenReached("root")
    /\ Len(nodes["root"].children) = MAX_CHILDREN_PER_NODE

\* a prompt that the redundancy check lets through under this parent
freshPrompt(prompt, parentId) == ~isRedundantPath(SignatureOf[prompt], parentId)

\* C3 (as claimed): addNode with a fresh prompt succeeds for every parent whose
\* depth is < maxDepth, and an addNode rejected with the maximum-depth error has
\* a parent at depth maxDepth.
C3_ChainToMaxDepth ==
    /\ \A parentId \in nodeIds, prompt \in ChildPrompts :
          ( /\ nodes[parentId].depth < maxDepth
            /\ Len(nodes[parentId].children) < MAX_CHILDREN_PER_NODE
            /\ freshPrompt(prompt, parentId) )
          => addNodeError(parentId, prompt) = ""
    /\ (last.op = "addNode" /\ last.error = MaximumDepthReached)
          => nodes[last.nodeId].depth = maxDepth

\* C4: the tree has at most one root, a node has parentId null iff it is the
\* node "root" at depth 0, and initializeRoot on a tree with a root fails with
\* "Tree already initialized" and changes nothing.
C4_SingleRoot ==
    /\ [](/\ rootNode # NULL => (rootNode = "root" /\ rootNode \in nodeIds)
          /\ rootNode = NULL => nodeIds = {}
          /\ \A id \in nodeIds :
                /\ nodes[id].parentId = NULL <=> id = "root"
                /\ nodes[id].depth = 0 <=> id = "root"
                /\ nodes[id].id = id)
    /\ [][(last'.op = "initializeRoot" /\ rootNode # NULL)
            => (last'.error = TreeAlreadyInitialized /\ UNCHANGED treeVars)]_vars

C4_Witness ==
    /\ last.op = "initializeRoot" /\ last.error = TreeAlreadyInitialized
    /\ Cardinality(nodeIds) >= 2

\* C5: no two nodes have the same pathSignature, and addNode is rejected for
\* every prompt whose signature is that of a node anywhere in the tree.
C5_UniqueSignatures ==
    /\ \A a, b \in nodeIds : a # b => nodes[a].pathSignature # nodes[b].pathSignature
    /\ \A id \in nodeIds : nodes[id].pathSignature = SignatureOf[nodes[id].systemPrompt]
    /\ \A parentId, id \in nodeIds, prompt \in ChildPrompts :
          SignatureOf[prompt] = nodes[id].pathSignature
             => addNodeError(parentId, prompt) # ""

\* "Visit, schedule" was rejected under a parent that is not the parent of the
\* node holding "schedule visit"
C5_Witness ==
    /\ last.op = "addNode" /\ last.error = SimilarPathExplored
    /\ last.text = VisitSchedule
    /\ \E id \in nodeIds :
          /\ nodes[id].systemPrompt = ScheduleVisit
          /\ nodes[id].parentId # last.nodeId

(***************************************************************************)
(* Properties of the redundancy check, of completion and of the expansion  *)
(* query (Spec, SpecUpdate).                                               *)
(***************************************************************************)
\* the union of the themes of a node's children
childrenThemes(id) ==
    UNION {nodes[nodes[id].children[i]].exploredThemes : i \in DOMAIN nodes[id].children}

\* the themes of a candidate, as the check extracts them (from its signature)
candidateThemes(prompt) == ThemesOf[SignatureOf[prompt]]

\* C6 (as claimed): for a candidate with a fresh signature and at least one
\* theme, and the intended parent as context, isRedundantPath drops the
\* candidate exactly when all its themes are among the themes of that parent's
\* children.
C6_DropsWhenChildrenCoverThemes ==
    \A context \in nodeIds, prompt \in ChildPrompts :
        ( /\ SignatureOf[prompt] \notin exploredSignatures
          /\ candidateThemes(prompt) # {} )
        => ( isRedundantPath(SignatureOf[prompt], context)
               <=> candidateThemes(prompt) \subseteq childrenThemes(context) )

updated == last.op = "updateNodeWithResponse" /\ last.error = ""

\* C7 (as claimed): after updateNodeWithResponse with a list of candidates, the
\* stored list holds candidates of that list only, none whose signature is in
\* use by a node, and every candidate with a fresh signature and a theme not
\* covered by the node's existing children.
C7_StoresNovelCandidates ==
    (updated /\ last.candidates.defined) =>
        LET stored == Range(nodes[last.nodeId].potentialPrompts.items) IN
        /\ stored \subseteq Range(last.candidates.items)
        /\ \A prompt \in Range(last.candidates.items) :
              /\ SignatureOf[prompt] \in exploredSignatures => prompt \notin stored
              /\ ( /\ SignatureOf[prompt] \notin exploredSignatures
                   /\ candidateThemes(prompt) \ childrenThemes(last.nodeId) # {} )
                 => prompt \in stored

treeThemes == UNION {nodes[id].exploredThemes : id \in nodeIds}
updateCalled == last'.op = "updateNodeWithResponse" /\ last'.nodeId \in nodeIds

C9_RecordsCompletion ==
    [][last'.op = "updateNodeWithResponse" =>
         IF last'.nodeId \in nodeIds
         THEN LET id == last'.nodeId
                  survivors == SelectSeq(last'.candidates.items, LAMBDA prompt :
                                  ~isRedundantPath(SignatureOf[prompt], id))
              IN /\ last'.error = ""
                 /\ nodes' = [nodes EXCEPT
                       ![id].status = COMPLETED,
                       ![id].responseReceived = last'.text,
                       ![id].potentialPrompts =
                           [defined |-> last'.candidates.defined, items |-> survivors],
                       ![id].exploredThemes = @ \cup ThemesOf[last'.text]]
                 /\ UNCHANGED <<maxDepth, order, rootNode, exploredSignatures>>
         ELSE /\ last'.error = NodeNotFound(last'.nodeId)
              /\ UNCHANGED treeVars]_vars

\* a node that had themes completed with a themed response and a candidate was
\* dropped, and later a call named an id that is not in the tree
C9_Witness ==
    /\ last.op = "updateNodeWithResponse" /\ last.error = NodeNotFound(MissingId)
    /\ \E id \in nodeIds :
          /\ nodes[id].status = COMPLETED
          /\ nodes[id].responseReceived = ResponseSchedule
          /\ nodes[id].potentialPrompts = Defined(<<ScheduleNow>>)
          /\ Cardinality(nodes[id].exploredThemes) >= 2

queried == last.op = "getNodesWithUnexploredPaths"

\* C10: getNodesWithUnexploredPaths returns, once each, exactly the nodes that
\* are completed, hold a candidate, are below the depth and fan-out limits; in
\* the result child counts ascend and among equal child counts a node with
\* more themes comes before one with fewer; the same state gives the same result.
C10_ReadyNodesOrdered ==
    queried =>
        LET result == last.retList
            childCount(i) == Len(nodes[result[i]].children)
            themeCount(i) == Cardinality(nodes[result[i]].exploredThemes)
        IN /\ Range(result) = {id \in nodeIds :
                  /\ nodes[id].status = COMPLETED
                  /\ nodes[id].potentialPrompts.defined
                  /\ Len(nodes[id].potentialPrompts.items) >= 1
                  /\ nodes[id].depth < maxDepth
                  /\ Len(nodes[id].children) < MAX_CHILDREN_PER_NODE}
           /\ Cardinality(Range(result)) = Len(result)
           /\ \A i, j \in DOMAIN result : i < j =>
                  /\ childCount(i) <= childCount(j)
                  /\ childCount(i) = childCount(j) => themeCount(i) >= themeCount(j)
           /\ result = getNodesWithUnexploredPaths

\* two nodes with the same child count came out in the reverse of their
\* insertion order, the one with more themes first, after a node with fewer
\* children or before one with more
C10_Witness ==
    /\ queried
    /\ Len(last.retList) >= 3
    /\ \E i, j \in DOMAIN last.retList :
          /\ i < j
          /\ Len(nodes[last.retList[i]].children) = Len(nodes[last.retList[j]].children)
          /\ Cardinality(nodes[last.retList[i]].exploredThemes)
                > Cardinality(nodes[last.retList[j]].exploredThemes)
          /\ \E k, l \in DOMAIN order :
                k < l /\ order[k] = last.retList[j] /\ order[l] = last.retList[i]
    /\ \E i, j \in DOMAIN last.retList :
          Len(nodes[last.retList[i]].children) < Len(nodes[last.retList[j]].children)

(***************************************************************************)
(* Properties of the callQueue and of the drain loop (SpecQueue).          *)
(***************************************************************************)
\* C11 (as claimed): in every reachable state the callQueue is in descending
\* order of priority.  (The claim also orders the tasks of equal priority by
\* insertion; a queue that is not in descending order breaks the claim
\* whatever the order of its ties.)
C11_QueueSortedDescending ==
    \A i, j \in DOMAIN callQueue :
        i < j => callQueue[i].priority >= callQueue[j].priority

(***************************************************************************)
(* Properties of the priority of a candidate (SpecEngine).                 *)
(***************************************************************************)
urgency(prompt) == IF includes(toLowerCase(prompt), Emergency) THEN 3 ELSE 0

\* the texts of the transcripts that updateStateAfterCall has recorded
recordedTranscripts ==
    {nodes[id].responseReceived : id \in {n \in nodeIds : nodes[n].status = COMPLETED}}

\* C12 (as claimed): the priority of a candidate is 2 x (its themes that are
\* not in state.exploredThemes) + 3 if it contains "emergency" - (its themes
\* that are in state.activeThemes), and a candidate with one theme, all of
\* whose themes were recorded as explored (its text is that of a recorded
\* transcript), gets no novelty bonus: its priority is the urgency bonus minus
\* the overlap.
C12_PriorityFormula ==
    \A prompt \in EnginePrompts :
        LET themes == OrchestratorThemesOf[prompt]
            overlap == Cardinality(themes \cap state.activeThemes)
        IN  /\ calculatePathPriority(prompt, state)
                  = 2 * Cardinality(themes \ state.exploredThemes)
                    + urgency(prompt) - overlap
            /\ (Cardinality(themes) = 1 /\ prompt \in recordedTranscripts)
                  => calculatePathPriority(prompt, state) = urgency(prompt) - overlap

(***************************************************************************)
(* Properties of the orchestrator's handlers (SpecEngine, SpecStray,       *)
(* SpecQueue, SpecPacing).                                                 *)
(***************************************************************************)
\* C13 (as claimed): in every reachable state at most maxConcurrentCalls of the
\* calls the API started have not been reported completed or failed.
C13_InFlightWithinLimit ==
    Cardinality(inFlight) <= config.maxConcurrentCalls

\* the queue right after the catch block of the drain loop: the loop has
\* shifted event'.attempted from it since
queueAfterCatch ==
    IF event'.attempted # NoTask THEN <<event'.attempted>> \o callQueue' ELSE callQueue'

\* C14 (as claimed): when the dispatch of a popped task fails, the task goes
\* back into the queue with its priority reduced by 1, unless its priority is
\* at the floor -2: then it is dropped and failedCallCount is incremented.
C14_RequeueOrCountFailure ==
    [][(event'.op = "DrainCallResolved" /\ event'.outcome # "dispatched") =>
         LET task == event'.resolved IN
         IF task.priority <= -2
         THEN /\ queueAfterCatch = callQueue
              /\ state'.failedCallCount = state.failedCallCount + 1
         ELSE /\ queueAfterCatch = Append(callQueue, [task EXCEPT !.priority = @ - 1])
              /\ state'.failedCallCount = state.failedCallCount]_vars

\* the number of tasks of the queue with a priority above that of task
rank(queue, task) ==
    Cardinality({i \in DOMAIN queue : queue[i].priority > task.priority})

\* a cycle that began with maxConcurrentCalls = 2, no call in flight and five
\* queued tasks of distinct priority
fiveTaskCycle(c) ==
    /\ c.open
    /\ config.maxConcurrentCalls = 2
    /\ c.active = 0 /\ c.inFlight = 0
    /\ Len(c.queue) = 5
    /\ \A i, j \in DOMAIN c.queue : i # j => c.queue[i].priority # c.queue[j].priority

\* C15 (as claimed): such a cycle makes exactly 2 dispatch attempts, for the
\* highest and the second highest task of the queue it began with, whether
\* the attempts succeed or fail.
C15_TwoAttemptsPerCycle ==
    /\ [](fiveTaskCycle(cycle) =>
            /\ Len(cycle.attempts) <= 2
            /\ \A i \in DOMAIN cycle.attempts :
                  /\ cycle.attempts[i] \in Range(cycle.queue)
                  /\ rank(cycle.queue, cycle.attempts[i]) = i - 1)
    /\ [][(fiveTaskCycle(cycle) /\ ~cycle'.open) => Len(cycle.attempts) = 2]_vars

\* C16 (as claimed): whenever the drain loop attempts a task, no task in the
\* queue at that moment has a strictly higher priority.
C16_AttemptsInPriorityOrder ==
    event.attempted # NoTask =>
        \A i \in DOMAIN callQueue : callQueue[i].priority <= event.attempted.priority

\* C17 (as claimed): two successive calls of startCall are at least
\* minTimeBetweenCalls apart, and a dispatch that waits for the interval is
\* made afterwards: the drain loop goes from the pacing delay to startCall
\* with the same task.
C17_CallsPacedApart ==
    /\ [][(event'.invoked /\ event.lastStartCallAt # NoTime)
            => now' - event.lastStartCallAt >= config.minTimeBetweenCalls]_vars
    /\ [][drain.pc = "pacing"
            => (drain'.pc \in {"pacing", "startCall"} /\ drain'.nextCall = drain.nextCall)]_vars

\* C18 (as claimed): once a startDiscovery has succeeded (the root exists),
\* every call of startDiscovery fails with the already-running error, places
\* no call and changes neither the tree nor the Discovery State.
C18_StartsOnlyOnce ==
    /\ [][(rootNode # NULL /\ event'.op = "StartDiscovery")
            => (event'.error = AlreadyRunning /\ UNCHANGED <<treeVars, state, calls>>)]_vars
    /\ [][(rootNode # NULL /\ event'.op = "StartDiscoveryCallResolved")
            => UNCHANGED calls]_vars

\* C19 (as claimed): when startCall rejects the root call of a startDiscovery,
\* the error goes to the caller, the engine is not running, there is no root
\* node, activeCallCount is unchanged and no drain loop has been started.
C19_FailedStartLeavesNothing ==
    [][(event'.op = "StartDiscoveryCallResolved" /\ calls' = Append(calls, REJECTED)) =>
         /\ event'.error = FailedToInitiateCall
         /\ ~state'.isRunning
         /\ rootNode' = NULL
         /\ state'.activeCallCount = state.activeCallCount
         /\ drain' = NoDrain]_vars

\* C20 (as claimed): handleCallCompleted for a call id that no node has raises
\* no error and leaves the tree, the queue and the counters activeCallCount,
\* completedCallCount and failedCallCount unchanged.
C20_UnknownCompletionIgnored ==
    [][(event'.op = "HandleCallCompleted" /\ findNodeByCallId(event'.callId) = NULL) =>
         /\ event'.error = ""
         /\ UNCHANGED <<treeVars, callQueue>>
         /\ state'.activeCallCount = state.activeCallCount
         /\ state'.completedCallCount = state.completedCallCount
         /\ state'.failedCallCount = state.failedCallCount]_vars

(***************************************************************************)
(* Properties of the completion and failure handlers (SpecRetry,           *)
(* SpecEngine).                                                            *)
(***************************************************************************)
\* the (parent, prompt) pairs of the tasks of a queue
queuedPaths(queue) == SeqToBag([i \in DOMAIN queue |-> <<queue[i].parentId, queue[i].prompt>>])

\* handleCallCompleted has run to its end for the node last'.nodeId
completionProcessed == event'.op = "AnalysisReturned" /\ last'.error = ""

\* C21 (as claimed): a completion that is not terminal adds to the queue one
\* task for each candidate stored as the node's potentialPrompts (those the
\* filter of updateNodeWithResponse kept) and no other task; a terminal
\* completion leaves the queue as it is.
C21_EnqueuesSurvivingCandidates ==
    [][completionProcessed =>
         LET nodeId == last'.nodeId
             survived == nodes'[nodeId].potentialPrompts.items
             terminal == last'.candidates.items = <<>> /\ last'.text \in TerminalResponses
         IN  IF terminal THEN callQueue' = callQueue
             ELSE queuedPaths(callQueue')
                     = queuedPaths(callQueue)
                         (+) SeqToBag([i \in DOMAIN survived |-> <<nodeId, survived[i]>>])]_vars

\* the calls the API started, and those the webhook reported failed
startedCalls == {k \in DOMAIN calls : calls[k] # REJECTED}
failedCalls == {k \in DOMAIN calls : calls[k] = FAILED}
\* the tree has the root only: every call the API started is a call of the root
rootOnly == nodeIds = {"root"}

\* C22 (as claimed): once the calls of a node have failed MAX_RETRY_ATTEMPTS = 3
\* times, the node is marked failed, failedCallCount has been incremented once
\* for it and there is no 4th dispatch for it.  Stated for the root while it
\* is the only node.
C22_ThirdFailureIsFinal ==
    (rootOnly /\ Cardinality(failedCalls) >= MAX_RETRY_ATTEMPTS) =>
        /\ nodes["root"].status = FAILED
        /\ state.failedCallCount = 1
        /\ Cardinality(startedCalls) <= MAX_RETRY_ATTEMPTS

\* a step in which an invocation of handleCallFailed runs to its end: at once
\* (unknown node, retries exhausted) or from the return of the redispatch
handleCallFailedEnds ==
    \/ event'.op = "HandleCallFailed" /\ pending' = pending
    \/ event'.op = "RetryCallResolved"
\* a step of an invocation of handleCallFailed that leaves it suspended
handleCallFailedSuspends ==
    \/ event'.op = "HandleCallFailed" /\ pending' # pending
    \/ event'.op = "RetryDelayElapsed"

\* C23 (as claimed): an invocation of handleCallFailed decrements
\* activeCallCount by exactly 1 whatever its outcome: the decrement is made
\* when the invocation ends, also when the redispatch raised an error, and
\* not before.
C23_FailureAlwaysDecrements ==
    /\ [][handleCallFailedEnds => state'.activeCallCount = state.activeCallCount - 1]_vars
    /\ [][handleCallFailedSuspends => state'.activeCallCount = state.activeCallCount]_vars

\* the node whose call a step of handleCallFailed is about
failedNode == findNodeByCallId(event'.callId)
\* the node a redispatch was made for: the one that carries the new call id
redispatched(n) ==
    /\ event'.op = "RetryCallResolved" /\ event'.callId # NULL
    /\ nodes'[n].callId = event'.callId

\* C24 (as claimed): a node whose failed call is redispatched is in progress
\* with retryCount incremented by 1; retryCount never exceeds
\* MAX_RETRY_ATTEMPTS; a node whose retries are exhausted has status failed;
\* a completed node keeps its status.
C24_NodeStatusLifecycle ==
    /\ [][\A n \in nodeIds : redispatched(n) =>
             /\ nodes'[n].status = IN_PROGRESS
             /\ nodes'[n].retryCount = nodes[n].retryCount + 1]_vars
    /\ [](\A n \in nodeIds : nodes[n].retryCount <= MAX_RETRY_ATTEMPTS)
    /\ [][(event'.op = "HandleCallFailed" /\ failedNode # NULL
             /\ nodes[failedNode].retryCount >= MAX_RETRY_ATTEMPTS)
            => nodes'[failedNode].status = FAILED]_vars
    /\ [][\A n \in nodeIds : nodes[n].status = COMPLETED => nodes'[n].status = COMPLETED]_vars

(***************************************************************************)
(* Properties of a stopped engine (SpecEngine).                            *)
(***************************************************************************)
\* C25 (as claimed): once stopDiscovery has returned, no task is taken from
\* the queue any more.  The engine is not running in a state whose drain loop
\* exists only after a stopDiscovery; a step made in such a state that pops a
\* task records it as attempted.
C25_NoDrainAfterStop ==
    [][(~state.isRunning /\ drain # NoDrain) => event'.attempted = NoTask]_vars

\* the node a processed completion was for, and whether the webhook reported
\* its call while the engine was stopped
completedNode == last'.nodeId
reportedAfterStop(n) == nodes[n].callId \in event.reportedWhileStopped

\* C26: every completion of a call of a node is processed in the same way,
\* whether the engine is running or was stopped while the call was in flight:
\* the event suspends handleCallCompleted at the analysis without an error,
\* and from there the handler marks the node completed, stores the
\* transcript, decrements activeCallCount and increments completedCallCount.
C26_CompletionAfterStopProcessed ==
    /\ [][(event'.op = "HandleCallCompleted" /\ findNodeByCallId(event'.callId) # NULL) =>
            /\ event'.error = ""
            /\ \E response \in EngineResponses :
                  pending' = pending (+) suspended(Handler("handleCallCompleted",
                      "analyzeResponse", findNodeByCallId(event'.callId), response, 0, 0))]_vars
    /\ [][completionProcessed =>
            /\ nodes'[completedNode].status = COMPLETED
            /\ nodes'[completedNode].responseReceived = last'.text
            /\ state'.activeCallCount = state.activeCallCount - 1
            /\ state'.completedCallCount = state.completedCallCount + 1]_vars

\* a call that was in flight when the engine was stopped has completed and has
\* been processed: the first call of the root, with which the drain loop
\* started in a running engine, was reported to an engine that was not running
C26_Witness ==
    /\ event.op = "AnalysisReturned"
    /\ ~state.isRunning
    /\ drain # NoDrain
    /\ last.nodeId = "root" /\ nodes["root"].callId = callIdOf(1)
    /\ reportedAfterStop(last.nodeId)
    /\ nodes[last.nodeId].status = COMPLETED
    /\ state.completedCallCount >= 1

\* a step in which an error is raised inside a handler of a call's event:
\* handleCallCompleted finds no node for the call id, or the redispatch of
\* handleCallFailed fails
handlerRaised ==
    \/ event'.op = "HandleCallCompleted" /\ findNodeByCallId(event'.callId) = NULL
    \/ event'.op = "RetryCallResolved" /\ calls' = Append(calls, REJECTED)

\* C27 (as claimed): an error raised while handleCallCompleted or
\* handleCallFailed processes a call does not reach the caller and
\* increments failedCallCount.
C27_HandlerErrorsCounted ==
    [][handlerRaised =>
         (event'.error = "" /\ state'.failedCallCount = state.failedCallCount + 1)]_vars

(***************************************************************************)
(* Progress of the frontier (SpecLive).                                    *)
(***************************************************************************)
\* a running engine has a task in its queue and the API can still be called
frontierWaiting == state.isRunning /\ Len(callQueue) > 0 /\ mayCall
\* the drain loop has just taken a task from the queue to dispatch it (it is
\* then dispatched, re-enqueued with a lower priority or dropped)
taskTaken == event.attempted # NoTask

\* C28 (as claimed): under the scheduling of SpecLive, whatever calls fail and
\* whatever redispatches are rejected, a task that waits in the queue of a
\* running engine does not wait for ever: the drain loop goes on taking tasks
\* from the queue for as long as it holds any.
C28_FrontierNeverStops ==
    frontierWaiting ~> (taskTaken \/ ~mayCall)

(***************************************************************************)
(* Consumption of the tasks (SpecRetry).                                   *)
(***************************************************************************)
\* the drain loop has finished an attempt with this outcome
attemptEnded(outcome) == event'.op = "DrainCallResolved" /\ event'.outcome = outcome

\* C29 (as claimed): a task whose dispatch succeeds produces one external call
\* and one new node and does not go back into the queue; a task goes back
\* into the queue only after a failed dispatch, for which no external call
\* was placed: startCall rejected it.
C29_TaskConsumedOnce ==
    /\ [][attemptEnded("dispatched") =>
            /\ calls' = Append(calls, IN_FLIGHT)
            /\ Cardinality(DOMAIN nodes') = Cardinality(nodeIds) + 1
            /\ queueAfterCatch = callQueue]_vars
    /\ [][attemptEnded("requeued") => calls' = Append(calls, REJECTED)]_vars

(***************************************************************************)
(* Properties of the path signature (SpecSignature).                       *)
(***************************************************************************)
\* a punctuation character: neither a letter or digit, in either case, nor
\* whitespace
isPunctuation(c) == lowerChar(c) \notin Alphanumeric \cup Whitespace
\* the words of an utterance, as a bag: its maximal runs of characters other
\* than whitespace, without their punctuation and in lower case
wordsOf(text) ==
    SeqToBag(SelectSeq(splitWhitespace(SelectSeq(toLowerCase(text),
                                                 LAMBDA c : ~isPunctuation(c))),
                       LAMBDA token : token # <<>>))
WordsOf == [text \in Utterances |-> wordsOf(text)]

\* C30 (as claimed): two utterances with the same words, in any order,
\* whatever their letter case, their punctuation and the whitespace around
\* them, have the same signature.  Stated for the utterances that have a word.
C30_SignatureIgnoresOrderAndPunctuation ==
    (last.op = "generatePathSignature" /\ WordsOf[last.text] # EmptyBag) =>
        \A other \in Utterances :
            WordsOf[other] = WordsOf[last.text] => UtteranceSignature[other] = last.retText

(***************************************************************************)
(* Properties of the response analyzer (SpecAnalyzer).                     *)
(***************************************************************************)
\* the last step was an analyzeResponse that did not end in its catch block
analyzed ==
    /\ last.op = "analyzeResponse"
    /\ analysisResult.identifiedPaths # <<createDefaultSystemPrompt>>
hasTerminalIndicator(response) ==
    \E indicator \in TERMINAL_INDICATORS : includes(toLowerCase(response), indicator)

\* C31: analyzeResponse reports isTerminalState = TRUE whenever the transcript
\* contains a terminal indicator such as "goodbye", also when the language
\* model returned candidate prompts for it.
C31_TerminalIndicatorDetected ==
    (analyzed /\ hasTerminalIndicator(last.text)) => analysisResult.isTerminalState

(***************************************************************************)
(* Further properties of the orchestrator (SpecDispatch, SpecStray,        *)
(* SpecRetry, SpecEngine).                                                 *)
(***************************************************************************)
\* the positions, among the attempts of the drain cycle in progress, of the
\* attempts to dispatch the task of attempt i (the task keeps its parent and
\* its prompt from one attempt to the next)
attemptsOfTask(i) ==
    {j \in DOMAIN cycle.attempts :
        /\ cycle.attempts[j].parentId = cycle.attempts[i].parentId
        /\ cycle.attempts[j].prompt = cycle.attempts[i].prompt}

\* C32: a queued task whose dispatch keeps failing is retried at most 3 times,
\* each time with a lower priority, whatever its initial priority: after the
\* first attempt there are at most 3 more, and it is then gone from the queue.
C32_AtMostThreeRetries ==
    \A i \in DOMAIN cycle.attempts :
        /\ Cardinality(attemptsOfTask(i)) <= 1 + 3
        /\ \A j \in attemptsOfTask(i) :
              i < j => cycle.attempts[j].priority < cycle.attempts[i].priority
        /\ Cardinality(attemptsOfTask(i)) = 1 + 3
              => ~\E k \in DOMAIN callQueue :
                    /\ callQueue[k].parentId = cycle.attempts[i].parentId
                    /\ callQueue[k].prompt = cycle.attempts[i].prompt

\* C33: activeCallCount is never negative, whatever start, completion and
\* failure events arrive, events for unknown call ids included.
C33_ActiveCallCountNotNegative == state.activeCallCount >= 0

\* no handler is suspended in the middle of an event or of a dispatch
quiescent == pending = EmptyBag /\ drain.pc \notin {"pacing", "startCall"}
\* the nodes whose call is in flight: in progress, with a call the API started
\* and the webhook has not reported
nodesInFlight ==
    {n \in nodeIds : /\ nodes[n].status = IN_PROGRESS
                     /\ \E k \in inFlight : nodes[n].callId = callIdOf(k)}

\* C34: whenever no handler is in the middle of processing an event,
\* activeCallCount is the number of nodes whose call is in flight; a node
\* whose failed call was redispatched is still counted.
C34_ActiveCountMatchesNodesInFlight ==
    quiescent => state.activeCallCount = Cardinality(nodesInFlight)

\* the nodes that carry the id of call k
nodesOfCall(k) == {n \in nodeIds : nodes[n].callId = callIdOf(k)}

\* C35: every call the engine has started, and whose completion or failure
\* the webhook has yet to report, is attached to exactly one node: no call is
\* placed for a task and left without a node that carries its id.
C35_StartedCallHasOneNode == \A k \in inFlight : Cardinality(nodesOfCall(k)) = 1

\* the nodes whose call was recorded as completed
completedNodes == {n \in nodeIds : nodes[n].status = COMPLETED}
\* handleCallCompleted finishes the processing of a completion event for a
\* node that an earlier completion event had already marked completed
completedAgain ==
    /\ event'.op = "AnalysisReturned"
    /\ nodes[last'.nodeId].status = COMPLETED

\* C36: the completion of a call is accounted at most once: completedCallCount
\* is the number of completed nodes, and a second completion event for a call
\* leaves completedCallCount, activeCallCount and the callQueue as they are.
C36_CompletionAccountedOnce ==
    /\ [](state.completedCallCount = Cardinality(completedNodes))
    /\ [][completedAgain =>
            /\ state'.completedCallCount = state.completedCallCount
            /\ state'.activeCallCount = state.activeCallCount
            /\ callQueue' = callQueue]_vars

(***************************************************************************)
(* Further properties of the tree (Spec, SpecUpdate).                      *)
(***************************************************************************)
\* the nodes reached from the nodes of found along children lists, in at most
\* steps more steps
RECURSIVE reached(_, _)
reached(found, steps) ==
    LET next == found \cup UNION {Range(nodes[n].children) : n \in found \cap nodeIds} IN
    IF steps = 0 \/ next = found THEN found ELSE reached(next, steps - 1)
reachableFromRoot ==
    IF rootNode = NULL THEN {} ELSE reached({rootNode}, Cardinality(nodeIds))
\* the positions of node n in the children list of node m
positionsIn(n, m) == {i \in DOMAIN nodes[m].children : nodes[m].children[i] = n}

\* C37: the tree is a rooted acyclic structure: the parentId of every node but
\* the root names a node, the node is exactly once in its parent's children
\* list and in no other children list, its depth is its parent's depth + 1,
\* and the node map holds exactly the nodes reachable from the root.
C37_RootedTree ==
    /\ \A n \in nodeIds \ {rootNode} :
          /\ nodes[n].parentId \in nodeIds
          /\ Cardinality(positionsIn(n, nodes[n].parentId)) = 1
          /\ \A m \in nodeIds \ {nodes[n].parentId} : positionsIn(n, m) = {}
          /\ nodes[n].depth = nodes[nodes[n].parentId].depth + 1
    /\ nodeIds = reachableFromRoot

\* addNode has built a tree of three levels with two children under the root
C37_Witness ==
    /\ last.op = "addNode" /\ last.error = ""
    /\ Len(nodes[rootNode].children) >= 2
    /\ \E n \in nodeIds : nodes[n].depth = 2 /\ nodes[nodes[n].parentId].parentId = rootNode

\* C39: every node that getNodesWithUnexploredPaths returns can be expanded
\* within the structural limits: addNode under it, whatever the prompt, is
\* not rejected by the depth check or by the fan-out check.
C39_ReadyNodesExpandable ==
    queried =>
        \A i \in DOMAIN last.retList : \A systemPrompt \in UpdatePrompts :
            addNodeError(last.retList[i], systemPrompt)
                \notin {MaximumDepthReached, MaximumChildrenReached(last.retList[i])}

(***************************************************************************)
(* Further properties of the orchestrator (SpecRetry, SpecRepeat).         *)
(***************************************************************************)
\* every call the engine dispatched has been reported and processed
allCallsFinished == inFlight = {} /\ quiescent

\* C38: activeThemes only holds themes of prompts whose calls are in flight:
\* whenever every dispatched call has completed or failed for good,
\* activeThemes is empty.
C38_ActiveThemesOfCallsInFlight == allCallsFinished => state.activeThemes = {}


\* C40 (as claimed): for every node at most 1 + MAX_RETRY_ATTEMPTS calls are
\* placed in total and at most one of them is in flight at any time, also when
\* two failure events for one call id are handled concurrently.  Stated for
\* the root while it is the only node, when every started call is its call.
C40_OneCallInFlightPerNode ==
    rootOnly =>
        /\ Cardinality(startedCalls) <= 1 + MAX_RETRY_ATTEMPTS
        /\ Cardinality(inFlight) <= 1

====
